---- MODULE Spec2Model ----
(***************************************************************************)
(* A model of GarminPenguinExpress: the activity manifest, the activity    *)
(* repository and the activities surface that drives them.                 *)
(*                                                                         *)
(* Python values are tagged records [t, v] so that the dynamically typed   *)
(* parts of the code (a manifest document that parses to something that is *)
(* not a mapping, a record that lacks a key) keep their behaviour.         *)
(***************************************************************************)
EXTENDS Integers, Sequences, FiniteSets, TLC

VARIABLES
    payload,     \* ActivityManifest._payload of the live manifest
    file,        \* the manifest file activities_manifest.json on disk
    clock,       \* datetime.utcnow(), in whole seconds
    last,        \* the manifest call that ran last, its arguments and its outcome
    device,      \* the mounted watch: relative path -> file content
    entries,     \* ActivitiesTab.activities: the entries of the last scan
    batch,       \* the entries handed to the operation in flight
    pos,         \* _upload_entries: index of the entry being uploaded
    upload_ids,  \* _upload_entries: the ids collected so far
    pc,          \* the activities surface: "idle", or the task its worker runs (_busy)
    garmin,      \* ConnectClient._garmin is not None
    accepted,    \* the remote service: the entries whose upload_activity succeeded
    local,       \* the destination folder on the computer: file name -> content
    template,    \* the WorkoutTemplate in the workout form
    built,       \* what build_payload returned for it, <<>> before it is built
    templates,   \* WorkoutManager.templates
    store,       \* the template store file workouts.json on disk
    watch,       \* the music directory of the watch: the names of its children
    calls,       \* the transport (gio) calls of the sync operation, in order
    log,         \* the lines the sync operation wrote to its log channel, in order
    sync,        \* the sync operation in flight or ended: its items, position and outcome
    busy,        \* surface -> its busy flag (_task_running, _busy)
    pool,        \* surface -> the workers its thread pool holds, in the order they were started
    session_dir, \* the persisted session directory connect_session on disk
    reached,     \* the remote service: the calls that reached it, in order
    auth         \* the session loads, logins and logouts of the client so far, in order

vars == <<payload, file, clock, last, device, entries, batch, pos, upload_ids, pc, garmin, accepted, local,
          template, built, templates, store, watch, calls, log, sync, busy, pool, session_dir, reached, auth>>

manifestVars == <<payload, file, clock, last>>
tabVars == <<entries, batch, pos, upload_ids, pc, garmin, accepted, local>>
workoutVars == <<template, built>>
storeVars == <<templates, store>>
syncVars == <<watch, calls, log, sync>>
surfaceVars == <<busy, pool>>
clientVars == <<session_dir, reached, auth>>

---------------------------------------------------------------------------
(* Bounds of the model.                                                    *)

MaxClock == 1
MaxBatch == 2

---------------------------------------------------------------------------
(* Python values.                                                          *)

PyNone == [t |-> "NoneType", v |-> "None"]
PyBool(b) == [t |-> "bool", v |-> b]
PyStr(s) == [t |-> "str", v |-> s]
PyInt(n) == [t |-> "int", v |-> n]
PyList(s) == [t |-> "list", v |-> s]
PyDict(f) == [t |-> "dict", v |-> f]

EmptyMap == [k \in {} |-> PyNone]
EmptyDict == PyDict(EmptyMap)

\* Python truthiness, as `if not record` and bool(...) apply it.
Truthy(x) ==
    CASE x.t = "NoneType" -> FALSE
      [] x.t = "bool" -> x.v
      [] x.t = "str" -> x.v # ""
      [] x.t = "int" -> x.v # 0
      [] x.t = "list" -> Len(x.v) > 0
      [] x.t = "dict" -> DOMAIN x.v # {}

\* dict.get(key) on the mapping d of a dict: the value, or None.
DictGet(d, k) == IF k \in DOMAIN d THEN d[k] ELSE PyNone

\* d with d[k] = x, whether or not k was a key.
DictPut(d, k, x) == [j \in DOMAIN d \cup {k} |-> IF j = k THEN x ELSE d[j]]

\* dict.setdefault(key, default) on the mapping d: d afterwards.
DictSetDefault(d, k, x) == IF k \in DOMAIN d THEN d ELSE DictPut(d, k, x)

\* dict.update(other) on the mapping d: d afterwards.
DictUpdate(d, o) == [j \in DOMAIN d \cup DOMAIN o |-> IF j \in DOMAIN o THEN o[j] ELSE d[j]]

---------------------------------------------------------------------------
(* JSON documents: json.dumps and json.loads.  A document is a tree        *)
(* [t, v]; an object is a sequence of members [key, value], as in the text.*)

JNull == [t |-> "null", v |-> "null"]
JBool(b) == [t |-> IF b THEN "true" ELSE "false", v |-> IF b THEN "true" ELSE "false"]
JString(s) == [t |-> "string", v |-> s]
JNumber(n) == [t |-> "number", v |-> n]
JArray(s) == [t |-> "array", v |-> s]
JObject(m) == [t |-> "object", v |-> m]

RECURSIVE json_dumps(_)
RECURSIVE DumpMembers(_, _)
RECURSIVE DumpItems(_)

\* The members of mapping d restricted to keys, one after the other.
DumpMembers(d, keys) ==
    IF keys = {} THEN <<>>
    ELSE LET k == CHOOSE k \in keys : TRUE
         IN <<[key |-> k, value |-> json_dumps(d[k])]>> \o DumpMembers(d, keys \ {k})

DumpItems(s) ==
    IF s = <<>> THEN <<>> ELSE <<json_dumps(Head(s))>> \o DumpItems(Tail(s))

json_dumps(x) ==
    CASE x.t = "NoneType" -> JNull
      [] x.t = "bool" -> JBool(x.v)
      [] x.t = "str" -> JString(x.v)
      [] x.t = "int" -> JNumber(x.v)
      [] x.t = "list" -> JArray(DumpItems(x.v))
      [] x.t = "dict" -> JObject(DumpMembers(x.v, DOMAIN x.v))

RECURSIVE json_loads(_)
RECURSIVE LoadItems(_)

LoadItems(s) ==
    IF s = <<>> THEN <<>> ELSE <<json_loads(Head(s))>> \o LoadItems(Tail(s))

\* A repeated key keeps its last value, as json.loads does.
json_loads(doc) ==
    CASE doc.t = "null" -> PyNone
      [] doc.t = "true" -> PyBool(TRUE)
      [] doc.t = "false" -> PyBool(FALSE)
      [] doc.t = "string" -> PyStr(doc.v)
      [] doc.t = "number" -> PyInt(doc.v)
      [] doc.t = "array" -> PyList(LoadItems(doc.v))
      [] doc.t = "object" ->
            PyDict([k \in {doc.v[i].key : i \in DOMAIN doc.v} |->
                LET i == CHOOSE i \in DOMAIN doc.v :
                        /\ doc.v[i].key = k
                        /\ \A i2 \in DOMAIN doc.v : doc.v[i2].key = k => i2 <= i
                IN json_loads(doc.v[i].value)])

---------------------------------------------------------------------------
(* Files of the watch.  The content of a .fit file is its bytes together   *)
(* with what the FIT decoder makes of them.                                *)

\* ACTIVITY_DIRS, in scan order.
ACTIVITY_DIRS == <<"GARMIN/Activity", "GARMIN/Monitor">>

\* relative_dir.name of each of ACTIVITY_DIRS.
DirName == <<"Activity", "Monitor">>

\* File names, in the order sorted(directory.glob("*.fit")) lists them.
FileNames == <<"A.fit", "B.fit">>

\* relative_dir / file_path.name
RelPath(dir, name) == dir \o "/" \o name

RelPaths == {RelPath(ACTIVITY_DIRS[d], FileNames[n]) : d \in DOMAIN ACTIVITY_DIRS, n \in DOMAIN FileNames}

\* datetime.fromtimestamp(0): the key scan gives an entry with no recorded time.
Epoch == 0

\* The earliest start_time the FIT decoder returns as a datetime: FIT counts
\* seconds from 1989-12-31 and values below 0x10000000 are not dates.
MinFitTime == 1

PyDatetime(n) == [t |-> "datetime", v |-> n]
PyFloat(n) == [t |-> "float", v |-> n]

\* fit: "corrupt" (the decoder raises), "nosession" (no session message),
\* "session" (a session message with these fields), "unreadable" (the file
\* is listed but reading its content fails).
FitContent(bytes, fit, start, sport, timer) ==
    [bytes |-> bytes, fit |-> fit, start_time |-> start, sport |-> sport, total_timer_time |-> timer]

Contents == {
    FitContent(<<1>>, "session", PyDatetime(MinFitTime), PyStr("running"), PyInt(60)),
    FitContent(<<2>>, "session", PyDatetime(MinFitTime + 1), PyStr("cycling"), PyInt(0)),
    FitContent(<<1, 2>>, "session", PyDatetime(MinFitTime + 1), PyNone, PyNone),
    FitContent(<<2, 1>>, "session", PyInt(7), PyStr("running"), PyInt(30)),
    FitContent(<<>>, "corrupt", PyNone, PyNone, PyNone),
    FitContent(<<3, 3>>, "unreadable", PyNone, PyNone, PyNone) }

\* hash_file on a file whose content cannot be read: path.open or handle.read
\* raises OSError, which hash_file does not catch.
hash_file_raises(content) == content.fit = "unreadable"

\* hash_file: the hex digest of the bytes, whatever the path.
hash_file(content) == "sha256:" \o ToString(content.bytes)

Digests == {hash_file(c) : c \in Contents}

\* What extract_upload_id yields: an id string, or None.
UploadIds == {PyNone, PyStr("u1"), PyStr("u2")}

---------------------------------------------------------------------------
(* ActivityManifest.                                                       *)

JsonText(doc) == [t |-> "json", v |-> doc]
\* Text that is not JSON (an empty or truncated file): json.loads raises JSONDecodeError.
NotJsonText == [t |-> "notjson", v |-> JNull]
\* Bytes that are not text: read_text raises UnicodeDecodeError.
NotUtf8Bytes == [t |-> "notutf8", v |-> JNull]

NoFile == [exists |-> FALSE, text |-> NotJsonText]
FileWith(text) == [exists |-> TRUE, text |-> text]

Outcome(p, raised) == [payload |-> p, raised |-> raised]

\* _load without its exists() test: a missing file makes read_text raise.
_load_unguarded(f) ==
    IF ~f.exists THEN Outcome(EmptyDict, "FileNotFoundError")
    ELSE IF f.text.t = "notutf8" THEN Outcome(EmptyDict, "UnicodeDecodeError")
    ELSE IF f.text.t = "notjson" THEN Outcome(EmptyDict, "")
    ELSE Outcome(json_loads(f.text.v), "")

\* __init__ and _load: the payload of a manifest constructed over file f.
_load(f) ==
    IF ~f.exists THEN Outcome(EmptyDict, "")
    ELSE IF f.text.t = "notutf8" THEN Outcome(EmptyDict, "UnicodeDecodeError")
    ELSE IF f.text.t = "notjson" THEN Outcome(EmptyDict, "")
    ELSE Outcome(json_loads(f.text.v), "")

\* save: the file after writing payload p.
save(p) == FileWith(JsonText(json_dumps(p)))

\* datetime.isoformat(timespec="seconds")
isoformat(now) == PyStr("T" \o ToString(now))

UploadedFields(sha256, upload_id, now) ==
    [k \in {"sha256", "uploaded", "upload_id", "last_uploaded"} |->
        CASE k = "sha256" -> PyStr(sha256)
          [] k = "uploaded" -> PyBool(TRUE)
          [] k = "upload_id" -> upload_id
          [] k = "last_uploaded" -> isoformat(now)]

\* mark_uploaded that keeps a hash already stored (setdefault in place of update).
mark_uploaded_keeps_hash(p, relative_path, sha256, upload_id, now) ==
    LET d == DictSetDefault(p.v, relative_path, EmptyDict)
        record == d[relative_path]
        fields == UploadedFields(sha256, upload_id, now)
    IN Outcome(PyDict(DictPut(d, relative_path,
           PyDict([k \in DOMAIN record.v \cup DOMAIN fields |->
               IF k = "sha256" /\ k \in DOMAIN record.v THEN record.v[k] ELSE fields[k]]))), "")

\* mark_uploaded up to its save(): the payload afterwards, or what it raises.
mark_uploaded(p, relative_path, sha256, upload_id, now) ==
    IF p.t # "dict" THEN Outcome(p, "AttributeError")
    ELSE LET d == DictSetDefault(p.v, relative_path, EmptyDict)
             record == d[relative_path]
         IN IF record.t # "dict" THEN Outcome(p, "AttributeError")
            ELSE Outcome(PyDict(DictPut(d, relative_path,
                     PyDict(DictUpdate(record.v, UploadedFields(sha256, upload_id, now))))), "")

\* mark_copied that assigns the hash instead of setdefault.
mark_copied_overwrites(p, relative_path, sha256) ==
    LET d == DictSetDefault(p.v, relative_path, EmptyDict)
        record == d[relative_path]
    IN Outcome(PyDict(DictPut(d, relative_path,
           PyDict(DictPut(record.v, "sha256", PyStr(sha256))))), "")

\* mark_copied that starts the record of the path afresh.
mark_copied_resets(p, relative_path, sha256) ==
    Outcome(PyDict(DictPut(p.v, relative_path,
        PyDict(DictPut(EmptyMap, "sha256", PyStr(sha256))))), "")

\* mark_copied up to its save().
mark_copied(p, relative_path, sha256) ==
    IF p.t # "dict" THEN Outcome(p, "AttributeError")
    ELSE LET d == DictSetDefault(p.v, relative_path, EmptyDict)
             record == d[relative_path]
         IN IF record.t # "dict" THEN Outcome(p, "AttributeError")
            ELSE Outcome(PyDict(DictPut(d, relative_path,
                     PyDict(DictSetDefault(record.v, "sha256", PyStr(sha256))))), "")

Returned(value) == [value |-> value, raised |-> ""]
Raised(kind) == [value |-> <<>>, raised |-> kind]

\* is_uploaded without the hash comparison.
is_uploaded_any_hash(p, relative_path, sha256) ==
    LET record == DictGet(p.v, relative_path)
    IN IF ~Truthy(record) THEN Returned(<<PyBool(FALSE), PyNone>>)
       ELSE Returned(<<PyBool(Truthy(DictGet(record.v, "uploaded"))),
                       DictGet(record.v, "upload_id")>>)

\* is_uploaded: the pair it returns, or what it raises.
is_uploaded(p, relative_path, sha256) ==
    IF p.t # "dict" THEN Raised("AttributeError")
    ELSE LET record == DictGet(p.v, relative_path)
         IN IF ~Truthy(record) THEN Returned(<<PyBool(FALSE), PyNone>>)
            ELSE IF record.t # "dict" THEN Raised("AttributeError")
            ELSE IF DictGet(record.v, "sha256") # PyStr(sha256)
                 THEN Returned(<<PyBool(FALSE), PyNone>>)
            ELSE Returned(<<PyBool(Truthy(DictGet(record.v, "uploaded"))),
                            DictGet(record.v, "upload_id")>>)

---------------------------------------------------------------------------
(* The manifest calls as steps.  `last` keeps the call and its outcome.    *)

Call(op, path, sha, id, ret) ==
    [op |-> op, path |-> path, sha |-> sha, id |-> id, value |-> ret.value, raised |-> ret.raised]

NoCall == Call("none", "", "", PyNone, Returned(<<>>))

\* The paths a payload holds records for.
RecordedPaths(p) == IF p.t = "dict" THEN DOMAIN p.v ELSE {}

\* No manifest object exists when the constructor raised.
Alive == ~(last.op = "__init__" /\ last.raised # "")

\* ActivityManifest(): the process starts and reads the file.  The call's
\* value notes the paths the manifest of the previous run held.
Construct ==
    LET r == _load(file)
    IN /\ payload' = r.payload
       /\ last' = Call("__init__", "", "", PyNone,
                       [value |-> <<RecordedPaths(payload)>>, raised |-> r.raised])
       /\ UNCHANGED <<file, clock>>

MarkUploaded(relative_path, sha256, upload_id) ==
    LET r == mark_uploaded(payload, relative_path, sha256, upload_id, clock)
    IN /\ Alive
       /\ payload' = r.payload
       /\ file' = IF r.raised = "" THEN save(r.payload) ELSE file
       /\ last' = Call("mark_uploaded", relative_path, sha256, upload_id,
                       [value |-> <<>>, raised |-> r.raised])
       /\ UNCHANGED clock

\* mark_copied without its save().
MarkCopied_unsaved(relative_path, sha256) ==
    LET r == mark_copied(payload, relative_path, sha256)
    IN /\ Alive
       /\ payload' = r.payload
       /\ last' = Call("mark_copied", relative_path, sha256, PyNone,
                       [value |-> <<>>, raised |-> r.raised])
       /\ UNCHANGED <<file, clock>>

MarkCopied(relative_path, sha256) ==
    LET r == mark_copied(payload, relative_path, sha256)
    IN /\ Alive
       /\ payload' = r.payload
       /\ file' = IF r.raised = "" THEN save(r.payload) ELSE file
       /\ last' = Call("mark_copied", relative_path, sha256, PyNone,
                       [value |-> <<>>, raised |-> r.raised])
       /\ UNCHANGED clock

IsUploaded(relative_path, sha256) ==
    /\ Alive
    /\ last' = Call("is_uploaded", relative_path, sha256, PyNone,
                    is_uploaded(payload, relative_path, sha256))
    /\ UNCHANGED <<payload, file, clock>>

\* Time passes.
Tick ==
    /\ clock < MaxClock
    /\ clock' = clock + 1
    /\ UNCHANGED <<payload, file, last>>

\* The manifest file is removed from outside the program.
ExternalDelete ==
    /\ file.exists
    /\ file' = NoFile
    /\ last' = Call("external_delete", "", "", PyNone, Returned(<<>>))
    /\ UNCHANGED <<payload, clock>>

\* The paths the manifest-only specification marks and queries.
ManifestPaths == {RelPath(ACTIVITY_DIRS[1], FileNames[1]), RelPath(ACTIVITY_DIRS[2], FileNames[1])}
ManifestDigests == {hash_file(c) : c \in {c \in Contents : Len(c.bytes) = 1}} \cup {"sha256:other"}

----------------------------------------------------------------------------
(* workout_manager.py: templates and their compilation to a payload.        *)

SPORT_TYPES ==
    [running |-> [sportTypeId |-> 1, sportTypeKey |-> "running", displayOrder |-> 1],
     cycling |-> [sportTypeId |-> 2, sportTypeKey |-> "cycling", displayOrder |-> 2],
     other |-> [sportTypeId |-> 9, sportTypeKey |-> "other", displayOrder |-> 9]]

STEP_TYPES ==
    [warmup |-> [stepTypeId |-> 1, stepTypeKey |-> "warmup", displayOrder |-> 1],
     cooldown |-> [stepTypeId |-> 2, stepTypeKey |-> "cooldown", displayOrder |-> 2],
     interval |-> [stepTypeId |-> 3, stepTypeKey |-> "interval", displayOrder |-> 3],
     recovery |-> [stepTypeId |-> 4, stepTypeKey |-> "recovery", displayOrder |-> 4],
     repeat |-> [stepTypeId |-> 6, stepTypeKey |-> "repeat", displayOrder |-> 6]]

TARGET_NONE == [workoutTargetTypeId |-> 1, workoutTargetTypeKey |-> "no.target", displayOrder |-> 1]
TIME_CONDITION ==
    [conditionTypeId |-> 2, conditionTypeKey |-> "time", displayOrder |-> 2, displayable |-> TRUE]
ITERATION_CONDITION ==
    [conditionTypeId |-> 7, conditionTypeKey |-> "iterations", displayOrder |-> 7, displayable |-> FALSE]

WorkoutTemplate(name, sport, warmup_seconds, interval_seconds, recovery_seconds, repeats, cooldown_seconds) ==
    [name |-> name, sport |-> sport, warmup_seconds |-> warmup_seconds,
     interval_seconds |-> interval_seconds, recovery_seconds |-> recovery_seconds,
     repeats |-> repeats, cooldown_seconds |-> cooldown_seconds]

\* The dataclass defaults.
DefaultTemplate(name) == WorkoutTemplate(name, "running", 300, 60, 60, 4, 300)

Max0(n) == IF n > 0 THEN n ELSE 0

\* estimated_duration without the clamps.
estimated_duration_unclamped(t) ==
    t.warmup_seconds + t.cooldown_seconds + (t.interval_seconds + t.recovery_seconds) * t.repeats

\* An estimate that leaves the cooldown out.
estimated_duration_no_cooldown(t) ==
    Max0(t.warmup_seconds) + (Max0(t.interval_seconds) + Max0(t.recovery_seconds)) * Max0(t.repeats)

estimated_duration(t) ==
    Max0(t.warmup_seconds) + Max0(t.cooldown_seconds)
        + (Max0(t.interval_seconds) + Max0(t.recovery_seconds)) * Max0(t.repeats)

executable_step(order, step_type_key, seconds) ==
    [type |-> "ExecutableStepDTO",
     stepOrder |-> order,
     stepType |-> STEP_TYPES[step_type_key],
     endCondition |-> TIME_CONDITION,
     endConditionValue |-> PyFloat(seconds),
     targetType |-> TARGET_NONE,
     strokeType |-> [strokeTypeId |-> 0, displayOrder |-> 0],
     equipmentType |-> [equipmentTypeId |-> 0, displayOrder |-> 0]]

\* build_repeat_block with the recovery step ahead of the interval step.
build_repeat_block_recovery_first(order, t) ==
    <<[type |-> "RepeatGroupDTO",
       stepOrder |-> order,
       stepType |-> STEP_TYPES["repeat"],
       numberOfIterations |-> t.repeats,
       workoutSteps |-> <<executable_step(order + 1, "recovery", t.recovery_seconds),
                          executable_step(order + 2, "interval", t.interval_seconds)>>,
       endConditionValue |-> PyFloat(t.repeats),
       endCondition |-> ITERATION_CONDITION,
       smartRepeat |-> FALSE],
      order + 2>>

\* build_repeat_block: (repeat_step, order + 2)
build_repeat_block(order, t) ==
    LET interval_step == executable_step(order + 1, "interval", t.interval_seconds)
        recovery_step == executable_step(order + 2, "recovery", t.recovery_seconds)
    IN <<[type |-> "RepeatGroupDTO",
          stepOrder |-> order,
          stepType |-> STEP_TYPES["repeat"],
          numberOfIterations |-> t.repeats,
          workoutSteps |-> <<interval_step, recovery_step>>,
          endConditionValue |-> PyFloat(t.repeats),
          endCondition |-> ITERATION_CONDITION,
          smartRepeat |-> FALSE],
         order + 2>>

\* A sport lookup that falls back to the last row of the table.
sport_type_fallback_other(sport) ==
    IF sport \in DOMAIN SPORT_TYPES THEN SPORT_TYPES[sport] ELSE SPORT_TYPES["other"]

\* SPORT_TYPES.get(template.sport, SPORT_TYPES["running"])
sport_type(sport) ==
    IF sport \in DOMAIN SPORT_TYPES THEN SPORT_TYPES[sport] ELSE SPORT_TYPES["running"]

\* A repeat test that looks at the interval length only.
has_repeat_block_any_repeats(t) == t.interval_seconds > 0

\* if template.repeats > 0 and template.interval_seconds > 0
has_repeat_block(t) == t.repeats > 0 /\ t.interval_seconds > 0

build_payload(t) ==
    LET sport == sport_type(t.sport)
        steps1 == IF t.warmup_seconds > 0
                  THEN <<executable_step(1, "warmup", t.warmup_seconds)>> ELSE <<>>
        order1 == IF t.warmup_seconds > 0 THEN 1 + 1 ELSE 1
        block == build_repeat_block(order1, t)
        steps2 == IF has_repeat_block(t) THEN Append(steps1, block[1]) ELSE steps1
        order2 == IF has_repeat_block(t) THEN block[2] ELSE order1
        steps == IF t.cooldown_seconds > 0
                 THEN Append(steps2, executable_step(order2, "cooldown", t.cooldown_seconds))
                 ELSE steps2
    IN [workoutName |-> t.name,
        sportType |-> sport,
        estimatedDurationInSecs |-> estimated_duration(t),
        workoutSegments |-> <<[segmentOrder |-> 1, sportType |-> sport, workoutSteps |-> steps]>>]

\* No workout is being edited or built.
IdleWorkout ==
    /\ template = DefaultTemplate("Workout")
    /\ built = <<>>

\* No template is stored.
IdleStore ==
    /\ templates = <<>>
    /\ store = NoFile

\* No sync operation was started.
NoSource == [exists |-> FALSE, entries |-> <<>>]
NoSync ==
    [op |-> "none", phase |-> "none", items |-> <<>>, pos |-> 0, convert |-> FALSE,
     source |-> NoSource, state |-> "idle", raised |-> ""]

IdleSync ==
    /\ watch = {}
    /\ calls = <<>>
    /\ log = <<>>
    /\ sync = NoSync

\* The three surfaces that start background work.
Surfaces == {"main", "browser", "activities"}

\* No surface has a task in flight.
IdleSurfaces ==
    /\ busy = [s \in Surfaces |-> FALSE]
    /\ pool = [s \in Surfaces |-> <<>>]

\* No session is persisted and the client made no call.
IdleClient ==
    /\ session_dir = "absent"
    /\ reached = <<>>
    /\ auth = <<>>

IdleTab ==
    /\ device = [p \in {} |-> 0]
    /\ entries = <<>>
    /\ batch = <<>>
    /\ pos = 0
    /\ upload_ids = <<>>
    /\ pc = "idle"
    /\ garmin = FALSE
    /\ accepted = {}
    /\ local = [n \in {} |-> 0]

Init ==
    /\ payload = EmptyDict
    /\ file = NoFile
    /\ clock = 0
    /\ last = NoCall
    /\ IdleTab
    /\ IdleWorkout
    /\ IdleStore
    /\ IdleSync
    /\ IdleSurfaces
    /\ IdleClient

ManifestNext ==
    \/ Construct
    \/ \E p \in ManifestPaths, h \in ManifestDigests, id \in UploadIds : MarkUploaded(p, h, id)
    \/ \E p \in ManifestPaths, h \in ManifestDigests : MarkCopied(p, h)
    \/ \E p \in ManifestPaths, h \in ManifestDigests : IsUploaded(p, h)
    \/ Tick
    \/ ExternalDelete

Next == ManifestNext /\ UNCHANGED <<device, tabVars, workoutVars, storeVars, syncVars, surfaceVars, clientVars>>

Spec == Init /\ [][Next]_vars

---------------------------------------------------------------------------
(* Manifests built over documents the program did not write.               *)

Member(k, x) == [key |-> k, value |-> x]

APath == RelPath(ACTIVITY_DIRS[1], FileNames[1])

\* A document is a valid manifest mapping when it is an object whose values
\* are all objects.
ValidManifestText(text) ==
    /\ text.t = "json"
    /\ text.v.t = "object"
    /\ \A i \in DOMAIN text.v.v : text.v.v[i].value.t = "object"

Documents == {
    NoFile,
    FileWith(NotJsonText),
    FileWith(NotUtf8Bytes),
    FileWith(JsonText(JArray(<<>>))),
    FileWith(JsonText(JNull)),
    FileWith(JsonText(JNumber(3))),
    FileWith(JsonText(JString("x"))),
    FileWith(JsonText(JObject(<<>>))),
    FileWith(JsonText(JObject(<<Member(APath, JNumber(1))>>))),
    FileWith(JsonText(JObject(<<Member(APath, JNull)>>))),
    FileWith(JsonText(JObject(<<Member(APath, JArray(<<>>))>>))),
    FileWith(JsonText(JObject(<<Member(APath, JObject(<<>>))>>))),
    save(mark_uploaded(EmptyDict, APath, "sha256:other", PyStr("u1"), 0).payload) }

\* The state after ActivityManifest() over any of the documents.
InitLoad ==
    /\ file \in Documents
    /\ payload = _load(file).payload
    /\ last = Call("__init__", "", "", PyNone,
                   [value |-> <<{}>>, raised |-> _load(file).raised])
    /\ clock = 0
    /\ IdleTab
    /\ IdleWorkout
    /\ IdleStore
    /\ IdleSync
    /\ IdleSurfaces
    /\ IdleClient

NextLoad ==
    /\ \/ Construct
       \/ \E p \in ManifestPaths, h \in ManifestDigests, id \in UploadIds : MarkUploaded(p, h, id)
       \/ \E p \in ManifestPaths, h \in ManifestDigests : MarkCopied(p, h)
       \/ \E p \in ManifestPaths, h \in ManifestDigests : IsUploaded(p, h)
    /\ UNCHANGED <<device, tabVars, workoutVars, storeVars, syncVars, surfaceVars, clientVars>>

SpecLoad == InitLoad /\ [][NextLoad]_vars

---------------------------------------------------------------------------
(* ActivityRepository.                                                     *)

\* mount_root / relative path
MountPath(rel) == "/mnt/watch/" \o rel

\* str(sport) and float(duration) of read_fit_metadata.
PyStrOf(x) == IF x.t = "int" THEN PyStr(ToString(x.v)) ELSE PyStr(x.v)
PyFloatOf(x) == PyFloat(x.v)

\* A reader that lets the decoder's failure escape.
read_fit_metadata_raises_unabsorbed(content) == content.fit \in {"corrupt", "unreadable"}

\* What escapes from read_fit_metadata: nothing, its except clause takes every
\* Exception of the decoder.
read_fit_metadata_raises(content) == FALSE

\* read_fit_metadata: (start_time, sport, duration_seconds); every failure of
\* the decoder is absorbed into (None, None, None).
read_fit_metadata(content) ==
    IF content.fit # "session" THEN <<PyNone, PyNone, PyNone>>
    ELSE << IF content.start_time.t = "datetime" THEN content.start_time ELSE PyNone,
            IF content.sport # PyNone THEN PyStrOf(content.sport) ELSE PyNone,
            IF Truthy(content.total_timer_time) THEN PyFloatOf(content.total_timer_time) ELSE PyNone >>

ActivityEntry(rel, dirname, content, state) ==
    LET meta == read_fit_metadata(content)
    IN [path |-> MountPath(rel),
        relative_path |-> rel,
        recorded_time |-> meta[1],
        sport |-> meta[2],
        duration_seconds |-> meta[3],
        size_bytes |-> Len(content.bytes),
        sha256 |-> hash_file(content),
        uploaded |-> state[1],
        upload_id |-> state[2],
        source |-> dirname]

RECURSIVE CollectFrom(_, _, _, _)

\* _collect_entries: the entries of directory d, from its n-th file name on.
CollectFrom(dev, p, d, n) ==
    IF n > Len(FileNames) THEN <<>>
    ELSE LET rel == RelPath(ACTIVITY_DIRS[d], FileNames[n])
         IN IF rel \in DOMAIN dev
            THEN <<ActivityEntry(rel, DirName[d], dev[rel],
                       is_uploaded(p, rel, hash_file(dev[rel])).value)>>
                 \o CollectFrom(dev, p, d, n + 1)
            ELSE CollectFrom(dev, p, d, n + 1)

_collect_entries(dev, p, d) == CollectFrom(dev, p, d, 1)

\* The sort key of a scan that gives a missing time the key of the newest.
SortKey_none_newest(e) == IF e.recorded_time.t = "datetime" THEN e.recorded_time.v ELSE MinFitTime + 100

\* The key of scan's sort: e.recorded_time or datetime.fromtimestamp(0).
SortKey(e) == IF e.recorded_time.t = "datetime" THEN e.recorded_time.v ELSE Epoch

RECURSIVE InsertDescending(_, _)

\* e put behind every element whose key is not smaller: list.sort(reverse=True)
\* keeps elements of equal key in their order.
InsertDescending(sorted, e) ==
    IF sorted = <<>> THEN <<e>>
    ELSE IF SortKey(Head(sorted)) >= SortKey(e)
         THEN <<Head(sorted)>> \o InsertDescending(Tail(sorted), e)
         ELSE <<e>> \o sorted

RECURSIVE SortDescending(_, _)

SortDescending(sorted, rest) ==
    IF rest = <<>> THEN sorted
    ELSE SortDescending(InsertDescending(sorted, Head(rest)), Tail(rest))

RECURSIVE CollectDirs(_, _, _)

CollectDirs(dev, p, d) ==
    IF d > Len(ACTIVITY_DIRS) THEN <<>>
    ELSE _collect_entries(dev, p, d) \o CollectDirs(dev, p, d + 1)

\* scan: the entries of every activity directory, newest first.
scan(dev, p) == SortDescending(<<>>, CollectDirs(dev, p, 1))

\* What scan raises instead of returning: hash_file, read_fit_metadata and
\* is_uploaded are called for every file and nothing in _collect_entries or
\* scan catches what they raise.  "" when scan returns.
scan_raises(dev, p) ==
    IF \E rel \in DOMAIN dev : hash_file_raises(dev[rel]) THEN "OSError"
    ELSE IF \E rel \in DOMAIN dev : read_fit_metadata_raises(dev[rel]) THEN "FitParseError"
    ELSE IF \E rel \in DOMAIN dev : is_uploaded(p, rel, hash_file(dev[rel])).raised # ""
         THEN "AttributeError"
    ELSE ""

Min(a, b) == IF a <= b THEN a ELSE b

RECURSIVE MarkEach(_, _, _, _, _)

\* ActivityRepository.mark_uploaded from the i-th pair of zip(entries, upload_ids) on.
MarkEach(p, es, ids, now, i) ==
    IF i > Min(Len(es), Len(ids)) THEN Outcome(p, "")
    ELSE LET r == mark_uploaded(p, es[i].relative_path, es[i].sha256, ids[i], now)
         IN IF r.raised # "" THEN r ELSE MarkEach(r.payload, es, ids, now, i + 1)

\* mark_uploaded over zip(entries, upload_ids, strict=True): lists of
\* different lengths raise once the shorter one is used up.
Repository_mark_uploaded_strict(p, es, ids, now) ==
    IF Len(es) # Len(ids) THEN Outcome(MarkEach(p, es, ids, now, 1).payload, "ValueError")
    ELSE MarkEach(p, es, ids, now, 1)

Repository_mark_uploaded(p, es, ids, now) == MarkEach(p, es, ids, now, 1)

\* Path(entry.relative_path).name
RECURSIVE BaseNameFrom(_, _)
BaseNameFrom(rel, d) ==
    IF d > Len(ACTIVITY_DIRS) THEN rel
    ELSE LET n == {i \in DOMAIN FileNames : RelPath(ACTIVITY_DIRS[d], FileNames[i]) = rel}
         IN IF n # {} THEN FileNames[CHOOSE i \in n : TRUE] ELSE BaseNameFrom(rel, d + 1)
BaseName(rel) == BaseNameFrom(rel, 1)

---------------------------------------------------------------------------
(* ActivitiesTab: the activities surface.                                  *)

Event(op) == Call(op, "", "", PyNone, Returned(<<>>))

RECURSIVE PickRows(_, _, _)
\* _selected_entries: the entries of the selected rows, in row order.
PickRows(es, rows, i) ==
    IF i > Len(es) THEN <<>>
    ELSE (IF i \in rows THEN <<es[i]>> ELSE <<>>) \o PickRows(es, rows, i + 1)

_selected_entries(rows) == PickRows(entries, rows, 1)

Selections == {rows \in SUBSET (1..Len(entries)) : rows # {} /\ Cardinality(rows) <= MaxBatch}

NoTask == /\ batch' = <<>> /\ pos' = 0 /\ upload_ids' = <<>>

\* _handle_login with credentials the service accepts.
Login ==
    /\ ~garmin
    /\ garmin' = TRUE
    /\ last' = Event("login")
    /\ UNCHANGED <<payload, file, clock, device, entries, batch, pos, upload_ids, pc, accepted, local, workoutVars, storeVars, syncVars, surfaceVars, clientVars>>

\* _handle_logout
Logout ==
    /\ garmin
    /\ garmin' = FALSE
    /\ last' = Event("logout")
    /\ UNCHANGED <<payload, file, clock, device, entries, batch, pos, upload_ids, pc, accepted, local, workoutVars, storeVars, syncVars, surfaceVars, clientVars>>

\* refresh_activities: _run_async starts the scan unless the surface is busy.
refresh_activities ==
    /\ pc = "idle"
    /\ pc' = "scanning"
    /\ last' = Event("refresh_activities")
    /\ UNCHANGED <<payload, file, clock, device, entries, batch, pos, upload_ids, garmin, accepted, local, workoutVars, storeVars, syncVars, surfaceVars, clientVars>>

\* A scan that records what it saw in the manifest.
ScanTask_marks ==
    /\ pc = "scanning"
    /\ entries' = scan(device, payload)
    /\ last' = Event("scan")
    /\ payload' = IF entries' = <<>> THEN payload
                  ELSE mark_copied(payload, entries'[1].relative_path, entries'[1].sha256).payload
    /\ file' = save(payload')
    /\ pc' = "idle"
    /\ UNCHANGED <<clock, device, batch, pos, upload_ids, garmin, accepted, local, workoutVars, storeVars, syncVars, surfaceVars, clientVars>>

\* The scan task, then _populate_activity_table; when scan raises, _task_error.
ScanTask ==
    /\ pc = "scanning"
    /\ IF scan_raises(device, payload) = ""
       THEN /\ entries' = scan(device, payload)
            /\ last' = Event("scan")
       ELSE /\ entries' = entries
            /\ last' = Call("scan_failed", "", "", PyNone, Raised(scan_raises(device, payload)))
    /\ pc' = "idle"
    /\ UNCHANGED <<payload, file, clock, device, batch, pos, upload_ids, garmin, accepted, local, workoutVars, storeVars, syncVars, surfaceVars, clientVars>>

\* upload_selected_activities
upload_selected_activities(rows) ==
    /\ pc = "idle"
    /\ garmin
    /\ pc' = "uploading"
    /\ batch' = _selected_entries(rows)
    /\ pos' = 1
    /\ upload_ids' = <<>>
    /\ last' = Event("upload_selected_activities")
    /\ UNCHANGED <<payload, file, clock, device, entries, garmin, accepted, local, workoutVars, storeVars, syncVars, surfaceVars, clientVars>>

\* _upload_entries, one turn of its loop: upload_activity succeeds with this id.
UploadOne(upload_id) ==
    /\ pc = "uploading"
    /\ pos <= Len(batch)
    /\ garmin
    /\ accepted' = accepted \cup {<<batch[pos].relative_path, batch[pos].sha256>>}
    /\ upload_ids' = Append(upload_ids, upload_id)
    /\ pos' = pos + 1
    /\ last' = Event("upload_activity")
    /\ UNCHANGED <<payload, file, clock, device, entries, batch, pc, garmin, local, workoutVars, storeVars, syncVars, surfaceVars, clientVars>>

\* _upload_entries that swallows the failure and goes on to mark the batch.
UploadFail_marks ==
    LET r == Repository_mark_uploaded(payload, batch, [i \in 1..Len(batch) |-> PyNone], clock)
    IN /\ pc = "uploading"
       /\ pos <= Len(batch)
       /\ payload' = r.payload
       /\ file' = save(r.payload)
       /\ pc' = "idle"
       /\ NoTask
       /\ last' = Event("upload_failed")
       /\ UNCHANGED <<clock, device, entries, garmin, accepted, local, workoutVars, storeVars, syncVars, surfaceVars, clientVars>>

\* _upload_entries: upload_activity raises (no session, or the service fails);
\* the worker reports the error and _task_error clears the busy flag.
UploadFail ==
    /\ pc = "uploading"
    /\ pos <= Len(batch)
    /\ pc' = "idle"
    /\ NoTask
    /\ last' = Event("upload_failed")
    /\ UNCHANGED <<payload, file, clock, device, entries, garmin, accepted, local, workoutVars, storeVars, syncVars, surfaceVars, clientVars>>

\* _upload_entries after its loop: mark_uploaded(entries, upload_ids); then
\* _task_finished and _refresh_after_upload, which starts a scan.
UploadFinish ==
    LET r == Repository_mark_uploaded(payload, batch, upload_ids, clock)
    IN /\ pc = "uploading"
       /\ pos > Len(batch)
       /\ payload' = r.payload
       /\ file' = save(r.payload)
       /\ pc' = "scanning"
       /\ NoTask
       /\ last' = Event("upload_finished")
       /\ UNCHANGED <<clock, device, entries, garmin, accepted, local, workoutVars, storeVars, syncVars, surfaceVars, clientVars>>

\* mark_selected_uploaded: marks the selection with null ids, then refreshes.
mark_selected_uploaded(rows) ==
    LET es == _selected_entries(rows)
        r == Repository_mark_uploaded(payload, es, [i \in 1..Len(es) |-> PyNone], clock)
    IN /\ pc = "idle"
       /\ payload' = r.payload
       /\ file' = save(r.payload)
       /\ pc' = "scanning"
       /\ last' = Event("mark_selected_uploaded")
       /\ UNCHANGED <<clock, device, entries, batch, pos, upload_ids, garmin, accepted, local, workoutVars, storeVars, syncVars, surfaceVars, clientVars>>

\* copy_selected_to_local
copy_selected_to_local(rows) ==
    /\ pc = "idle"
    /\ pc' = "copying"
    /\ batch' = _selected_entries(rows)
    /\ pos' = 1
    /\ local' = [n \in {} |-> 0]
    /\ last' = Event("copy_selected_to_local")
    /\ UNCHANGED <<payload, file, clock, device, entries, upload_ids, garmin, accepted, workoutVars, storeVars, syncVars, surfaceVars, clientVars>>

\* copy_to_local, one turn of its loop: copy2 succeeds, then mark_copied.
CopyOne ==
    LET e == batch[pos]
        r == mark_copied(payload, e.relative_path, e.sha256)
        name == BaseName(e.relative_path)
    IN /\ pc = "copying"
       /\ pos <= Len(batch)
       /\ e.relative_path \in DOMAIN device
       /\ local' = [n \in DOMAIN local \cup {name} |->
                       IF n = name THEN device[e.relative_path] ELSE local[n]]
       /\ payload' = r.payload
       /\ file' = save(r.payload)
       /\ pos' = pos + 1
       /\ last' = Event("copy2")
       /\ UNCHANGED <<clock, device, entries, batch, upload_ids, pc, garmin, accepted, workoutVars, storeVars, syncVars, surfaceVars, clientVars>>

\* A copy loop that notes the failure of one entry and goes on to the next.
CopyFail_skips ==
    /\ pc = "copying"
    /\ pos <= Len(batch)
    /\ pos' = pos + 1
    /\ last' = Call("copy_failed", batch[pos].relative_path, batch[pos].sha256, PyNone, Raised("OSError"))
    /\ UNCHANGED <<payload, file, clock, device, entries, batch, upload_ids, pc, garmin, accepted, local, workoutVars, storeVars, syncVars, surfaceVars, clientVars>>

\* copy_to_local: copy2 raises for the entry at pos; nothing catches it in the
\* loop, so the failure ends the task and reaches _task_error.
CopyFail ==
    /\ pc = "copying"
    /\ pos <= Len(batch)
    /\ pc' = "idle"
    /\ NoTask
    /\ last' = Call("copy_failed", batch[pos].relative_path, batch[pos].sha256, PyNone, Raised("OSError"))
    /\ UNCHANGED <<payload, file, clock, device, entries, garmin, accepted, local, workoutVars, storeVars, syncVars, surfaceVars, clientVars>>

\* copy_to_local returns; _task_finished.
CopyFinish ==
    /\ pc = "copying"
    /\ pos > Len(batch)
    /\ pc' = "idle"
    /\ NoTask
    /\ last' = Event("copy_finished")
    /\ UNCHANGED <<payload, file, clock, device, entries, garmin, accepted, local, workoutVars, storeVars, syncVars, surfaceVars, clientVars>>

\* The watch records an activity under a file name, new or used before.
DeviceWrite(rel, content) ==
    /\ rel \notin DOMAIN device \/ device[rel] # content
    /\ device' = [q \in DOMAIN device \cup {rel} |-> IF q = rel THEN content ELSE device[q]]
    /\ last' = Event("device_write")
    /\ UNCHANGED <<payload, file, clock, entries, batch, pos, upload_ids, pc, garmin, accepted, local, workoutVars, storeVars, syncVars, surfaceVars, clientVars>>

---------------------------------------------------------------------------
(* The specifications of the repository and of the activities surface.     *)

\* Every watch: any of the contents under any of the activity paths.
ContentOf(bytes) == CHOOSE c \in Contents : c.bytes = bytes

AllDevices == UNION {[S -> Contents] : S \in SUBSET RelPaths}

\* The manifests a scan meets: none yet, or one that records an upload of the
\* first activity file.
ScanManifests ==
    { Outcome(EmptyDict, ""),
      mark_uploaded(EmptyDict, RelPath(ACTIVITY_DIRS[1], FileNames[1]),
                    hash_file(ContentOf(<<1>>)), PyStr("u1"), 0) }

\* Scans of any watch by a repository with one of these manifests.
InitScan ==
    /\ \E m \in ScanManifests :
          /\ payload = m.payload
          /\ file = IF m.payload = EmptyDict THEN NoFile ELSE save(m.payload)
    /\ clock = 0
    /\ last = NoCall
    /\ device \in AllDevices
    /\ entries = <<>>
    /\ batch = <<>>
    /\ pos = 0
    /\ upload_ids = <<>>
    /\ pc = "idle"
    /\ garmin = FALSE
    /\ accepted = {}
    /\ local = [n \in {} |-> 0]
    /\ IdleWorkout
    /\ IdleStore
    /\ IdleSync
    /\ IdleSurfaces
    /\ IdleClient

NextScan ==
    \/ refresh_activities
    \/ ScanTask

SpecScan == InitScan /\ [][NextScan]_vars

\* The watch the activities surface starts with.
TabDevice ==
    [rel \in {RelPath(ACTIVITY_DIRS[1], FileNames[1]), RelPath(ACTIVITY_DIRS[2], FileNames[1])} |->
        IF rel = RelPath(ACTIVITY_DIRS[1], FileNames[1]) THEN ContentOf(<<1>>) ELSE ContentOf(<<>>)]

\* The activities the watch records while the surface is open.
TabWrites == {<<RelPath(ACTIVITY_DIRS[1], FileNames[1]), ContentOf(<<2>>)>>}

InitTab ==
    /\ payload = EmptyDict
    /\ file = NoFile
    /\ clock = 0
    /\ last = NoCall
    /\ device = TabDevice
    /\ entries = <<>>
    /\ batch = <<>>
    /\ pos = 0
    /\ upload_ids = <<>>
    /\ pc = "idle"
    /\ garmin = FALSE
    /\ accepted = {}
    /\ local = [n \in {} |-> 0]
    /\ IdleWorkout
    /\ IdleStore
    /\ IdleSync
    /\ IdleSurfaces
    /\ IdleClient

TabIds == {PyNone, PyStr("u1")}

NextTab ==
    \/ Login
    \/ Logout
    \/ refresh_activities
    \/ ScanTask
    \/ \E rows \in Selections : upload_selected_activities(rows)
    \/ \E id \in TabIds : UploadOne(id)
    \/ UploadFail
    \/ UploadFinish
    \/ \E rows \in Selections : mark_selected_uploaded(rows)
    \/ \E rows \in Selections : copy_selected_to_local(rows)
    \/ CopyOne
    \/ CopyFail
    \/ CopyFinish
    \/ \E w \in TabWrites : DeviceWrite(w[1], w[2])

SpecTab == InitTab /\ [][NextTab]_vars

----------------------------------------------------------------------------
(* ActivityRepository.mark_uploaded called with any two lists.              *)

MaxIds == 3

\* The entries argument: up to MaxBatch different entries of the last scan, in any order.
EntryLists ==
    LET picks == UNION {[1..n -> DOMAIN entries] : n \in 0..MaxBatch}
    IN {[i \in DOMAIN s |-> entries[s[i]]] :
            s \in {q \in picks : \A i \in DOMAIN q, j \in DOMAIN q : q[i] = q[j] => i = j}}

\* The upload_ids argument: up to MaxIds ids.
IdLists == UNION {[1..n -> TabIds] : n \in 0..MaxIds}

\* ActivityRepository.mark_uploaded(entries, upload_ids); each turn of its loop
\* is ActivityManifest.mark_uploaded, which saves.
RepositoryMarkUploaded(es, ids) ==
    LET r == Repository_mark_uploaded(payload, es, ids, clock)
    IN /\ payload' = r.payload
       /\ file' = IF Min(Len(es), Len(ids)) = 0 THEN file ELSE save(r.payload)
       /\ batch' = es
       /\ upload_ids' = ids
       /\ last' = Call("Repository.mark_uploaded", "", "", PyNone,
                       [value |-> <<>>, raised |-> r.raised])
       /\ UNCHANGED <<clock, device, entries, pos, pc, garmin, accepted, local, workoutVars, storeVars, syncVars, surfaceVars, clientVars>>

InitMark ==
    /\ payload = EmptyDict
    /\ file = NoFile
    /\ clock = 0
    /\ last = NoCall
    /\ device = TabDevice
    /\ entries = scan(TabDevice, EmptyDict)
    /\ batch = <<>>
    /\ pos = 0
    /\ upload_ids = <<>>
    /\ pc = "idle"
    /\ garmin = FALSE
    /\ accepted = {}
    /\ local = [n \in {} |-> 0]
    /\ IdleWorkout
    /\ IdleStore
    /\ IdleSync
    /\ IdleSurfaces
    /\ IdleClient

NextMark == \E es \in EntryLists, ids \in IdLists : RepositoryMarkUploaded(es, ids)

SpecMark == InitMark /\ [][NextMark]_vars

----------------------------------------------------------------------------
(* build_payload applied to every template of a bounded form.               *)

TemplateNames == {"Intervals"}
TemplateSports == {"running", "cycling", "other", "yoga"}
WarmupValues == {-1, 0, 300}
IntervalValues == {-1, 0, 60}
RecoveryValues == {-1, 0, 45, 60}
RepeatValues == {-1, 0, 6}
CooldownValues == {-1, 0, 300}

Templates ==
    {WorkoutTemplate(n, s, w, i, r, k, c) :
        n \in TemplateNames, s \in TemplateSports, w \in WarmupValues, i \in IntervalValues,
        r \in RecoveryValues, k \in RepeatValues, c \in CooldownValues}

\* A template is put in the form.
EditTemplate(t) ==
    /\ template' = t
    /\ built' = <<>>
    /\ last' = Event("WorkoutTemplate")
    /\ UNCHANGED <<payload, file, clock, device, tabVars, storeVars, syncVars, surfaceVars, clientVars>>

\* build_payload(template)
BuildPayload ==
    /\ built' = build_payload(template)
    /\ last' = Event("build_payload")
    /\ UNCHANGED <<payload, file, clock, device, tabVars, template, storeVars, syncVars, surfaceVars, clientVars>>

InitWorkout == Init

NextWorkout ==
    \/ \E t \in Templates : EditTemplate(t)
    \/ BuildPayload

SpecWorkout == InitWorkout /\ [][NextWorkout]_vars

----------------------------------------------------------------------------
(* WorkoutManager: the template list and its store file.                    *)

MaxTemplates == 3

TextFields == {"name", "sport"}
IntFields == {"warmup_seconds", "interval_seconds", "recovery_seconds", "repeats", "cooldown_seconds"}

\* to_dict: asdict(self)
to_dict(t) ==
    PyDict([k \in TextFields \cup IntFields |-> IF k \in TextFields THEN PyStr(t[k]) ELSE PyInt(t[k])])

\* int(x): the number, or what int raises.  The strings of the documents here
\* are not numerals.
int(x) ==
    CASE x.t = "int" -> Returned(x.v)
      [] x.t = "bool" -> Returned(IF x.v THEN 1 ELSE 0)
      [] x.t = "str" -> Raised("ValueError")
      [] OTHER -> Raised("TypeError")

\* The defaults from_dict gives payload.get.
FromDictDefault ==
    [name |-> PyStr("Workout"), sport |-> PyStr("running"), warmup_seconds |-> PyInt(0),
     interval_seconds |-> PyInt(60), recovery_seconds |-> PyInt(60), repeats |-> PyInt(1),
     cooldown_seconds |-> PyInt(0)]

\* from_dict(payload): the template, or what payload.get or int raise.
from_dict(x) ==
    IF x.t # "dict" THEN Raised("AttributeError")
    ELSE LET get(k) == IF k \in DOMAIN x.v THEN x.v[k] ELSE FromDictDefault[k]
             failed == {k \in IntFields : int(get(k)).raised # ""}
         IN IF failed # {}
            THEN Raised(int(get(CHOOSE k \in failed : TRUE)).raised)
            ELSE Returned(WorkoutTemplate(get("name").v, get("sport").v,
                     int(get("warmup_seconds")).value, int(get("interval_seconds")).value,
                     int(get("recovery_seconds")).value, int(get("repeats")).value,
                     int(get("cooldown_seconds")).value))

RECURSIVE KeysOf(_)
\* The keys of a dict, each a str.
KeysOf(S) == IF S = {} THEN <<>> ELSE LET k == CHOOSE k \in S : TRUE IN <<PyStr(k)>> \o KeysOf(S \ {k})

\* `for item in data`: the items of a list, the keys of a dict, the characters
\* of a str (each a str; only their type matters to from_dict); other values
\* are not iterable.
IterItems(data) ==
    CASE data.t = "list" -> Returned(data.v)
      [] data.t = "dict" -> Returned(KeysOf(DOMAIN data.v))
      [] data.t = "str" -> Returned([i \in 1..Len(data.v) |-> PyStr("c")])
      [] OTHER -> Raised("TypeError")

Loaded(ts, raised) == [templates |-> ts, raised |-> raised]

RECURSIVE FromDicts(_, _)
\* [WorkoutTemplate.from_dict(item) for item in data] from the i-th item on.
FromDicts(items, i) ==
    IF i > Len(items) THEN Loaded(<<>>, "")
    ELSE LET r == from_dict(items[i])
             rest == FromDicts(items, i + 1)
         IN IF r.raised # "" THEN Loaded(<<>>, r.raised)
            ELSE IF rest.raised # "" THEN rest
            ELSE Loaded(<<r.value>> \o rest.templates, "")

\* WorkoutManager._load: what self.templates is afterwards and what escapes.
\* Only json.JSONDecodeError is caught.
WorkoutManager_load(f) ==
    IF ~f.exists THEN Loaded(<<>>, "")
    ELSE IF f.text.t = "notutf8" THEN Loaded(<<>>, "UnicodeDecodeError")
    ELSE IF f.text.t = "notjson" THEN Loaded(<<>>, "")
    ELSE LET it == IterItems(json_loads(f.text.v))
         IN IF it.raised # "" THEN Loaded(<<>>, it.raised) ELSE FromDicts(it.value, 1)

\* WorkoutManager.save: the file afterwards.
WorkoutManager_save(ts) ==
    FileWith(JsonText(json_dumps(PyList([i \in DOMAIN ts |-> to_dict(ts[i])]))))

\* list.pop(index) for 0 <= index < len: the list afterwards.
Pop(ts, index) ==
    [j \in 1..(Len(ts) - 1) |-> IF j <= index THEN ts[j] ELSE ts[j + 1]]

\* delete_template with the upper test only: a negative index reaches pop,
\* which counts it from the end.
delete_template_from_end(ts, index) ==
    IF index < Len(ts) /\ -index <= Len(ts)
    THEN [templates |-> Pop(ts, IF index < 0 THEN Len(ts) + index ELSE index), saved |-> TRUE]
    ELSE [templates |-> ts, saved |-> FALSE]

\* delete_template: the list afterwards and whether save ran.
delete_template(ts, index) ==
    IF 0 <= index /\ index < Len(ts)
    THEN [templates |-> Pop(ts, index), saved |-> TRUE]
    ELSE [templates |-> ts, saved |-> FALSE]

\* The manager exists: its constructor returned.
ManagerAlive == ~(last.op = "WorkoutManager" /\ last.raised # "")

\* add_template that leaves the file to a later save.
AddTemplate_unsaved(t) ==
    /\ ManagerAlive
    /\ Len(templates) < MaxTemplates
    /\ templates' = Append(templates, t)
    /\ store' = store
    /\ last' = Call("add_template", t.name, "", PyNone, Returned(<<>>))
    /\ UNCHANGED <<payload, file, clock, device, tabVars, workoutVars, syncVars, surfaceVars, clientVars>>

\* add_template(template)
AddTemplate(t) ==
    /\ ManagerAlive
    /\ Len(templates) < MaxTemplates
    /\ templates' = Append(templates, t)
    /\ store' = WorkoutManager_save(templates')
    /\ last' = Call("add_template", t.name, "", PyNone, Returned(<<>>))
    /\ UNCHANGED <<payload, file, clock, device, tabVars, workoutVars, syncVars, surfaceVars, clientVars>>

\* delete_template(index)
DeleteTemplate(index) ==
    LET r == delete_template(templates, index)
    IN /\ ManagerAlive
       /\ templates' = r.templates
       /\ store' = IF r.saved THEN WorkoutManager_save(r.templates) ELSE store
       /\ last' = Call("delete_template", "", "", PyInt(index), Returned(<<>>))
       /\ UNCHANGED <<payload, file, clock, device, tabVars, workoutVars, syncVars, surfaceVars, clientVars>>

\* WorkoutManager(store): the program starts again over the file.
ConstructManager ==
    /\ templates' = WorkoutManager_load(store).templates
    /\ last' = Call("WorkoutManager", "", "", PyNone,
                    [value |-> <<>>, raised |-> WorkoutManager_load(store).raised])
    /\ UNCHANGED <<payload, file, clock, device, tabVars, workoutVars, store, syncVars, surfaceVars, clientVars>>

\* The templates the user stores.
StoreTemplates ==
    { DefaultTemplate("Easy"),
      WorkoutTemplate("Tempo", "cycling", 0, 60, 45, 6, -1),
      WorkoutTemplate("Hills", "yoga", 600, 90, 0, 1, 300) }

\* The indices delete_template is called with.
DeleteIndices == (-MaxTemplates)..MaxTemplates

StoreNext ==
    \/ \E t \in StoreTemplates : AddTemplate(t)
    \/ \E index \in DeleteIndices : DeleteTemplate(index)
    \/ ConstructManager

InitStore == Init

SpecStore == InitStore /\ [][StoreNext]_vars

\* The store files a WorkoutManager is constructed over: none, files that are
\* not text or not JSON, JSON documents of every kind, and a store the
\* program wrote.
StoreDocuments ==
    { NoFile, FileWith(NotJsonText), FileWith(NotUtf8Bytes),
      WorkoutManager_save(<<DefaultTemplate("Easy")>>) }
    \cup { FileWith(JsonText(doc)) : doc \in
            { JNull, JNumber(5), JString(""), JString("ab"),
              JObject(<<>>), JObject(<<Member("name", JString("Easy"))>>),
              JArray(<<>>), JArray(<<JNumber(1)>>), JArray(<<JObject(<<>>)>>),
              JArray(<<JObject(<<Member("repeats", JString("x"))>>)>>),
              JArray(<<JObject(<<Member("repeats", JNull)>>)>>) } }

InitStoreLoad ==
    /\ payload = EmptyDict
    /\ file = NoFile
    /\ clock = 0
    /\ store \in StoreDocuments
    /\ templates = WorkoutManager_load(store).templates
    /\ last = Call("WorkoutManager", "", "", PyNone,
                   [value |-> <<>>, raised |-> WorkoutManager_load(store).raised])
    /\ IdleTab
    /\ IdleWorkout
    /\ IdleSync
    /\ IdleSurfaces
    /\ IdleClient

SpecStoreLoad == InitStoreLoad /\ [][StoreNext]_vars

----------------------------------------------------------------------------
(* sanitize_filename.  A str is the sequence of its characters here.        *)

MaxName == 3

Alnum == {"T"}
Whitespace == {" "}
Chars == Alnum \cup {"-", "_", "?"} \cup Whitespace

isalnum(ch) == ch \in Alnum

RECURSIVE lstrip(_)
lstrip(s) == IF s # <<>> /\ Head(s) \in Whitespace THEN lstrip(Tail(s)) ELSE s

RECURSIVE rstrip(_)
rstrip(s) ==
    IF s # <<>> /\ s[Len(s)] \in Whitespace THEN rstrip(SubSeq(s, 1, Len(s) - 1)) ELSE s

\* str.strip()
strip(s) == rstrip(lstrip(s))

\* The literal "workout".
Workout == <<"w", "o", "r", "k", "o", "u", "t">>

\* A sanitize_filename that does not strip the name.
sanitize_filename_unstripped(name) ==
    LET safe == [i \in 1..Len(name) |->
                    IF isalnum(name[i]) \/ name[i] \in {"-", "_"} THEN name[i] ELSE "_"]
    IN IF safe = <<>> THEN Workout ELSE safe

sanitize_filename(name) ==
    LET stripped == strip(name)
        safe == [i \in 1..Len(stripped) |->
                    IF isalnum(stripped[i]) \/ stripped[i] \in {"-", "_"} THEN stripped[i] ELSE "_"]
    IN IF safe = <<>> THEN Workout ELSE safe

\* The names a template can be given.
Names == UNION {[1..n -> Chars] : n \in 0..MaxName}

\* The name field of the workout form is edited.
NameTemplate(name) ==
    /\ template' = [template EXCEPT !.name = name]
    /\ built' = <<>>
    /\ last' = Event("WorkoutTemplate")
    /\ UNCHANGED <<payload, file, clock, device, tabVars, storeVars, syncVars, surfaceVars, clientVars>>

\* sanitize_filename(template.name), as the upload of a workout calls it.
SanitizeFilename ==
    /\ last' = Call("sanitize_filename", template.name, "", PyNone,
                    Returned(sanitize_filename(template.name)))
    /\ UNCHANGED <<payload, file, clock, device, tabVars, workoutVars, storeVars, syncVars, surfaceVars, clientVars>>

InitName ==
    /\ payload = EmptyDict
    /\ file = NoFile
    /\ clock = 0
    /\ last = NoCall
    /\ IdleTab
    /\ template \in {[DefaultTemplate("Workout") EXCEPT !.name = name] : name \in Names}
    /\ built = <<>>
    /\ IdleStore
    /\ IdleSync
    /\ IdleSurfaces
    /\ IdleClient

NextName ==
    \/ \E name \in Names : NameTemplate(name)
    \/ SanitizeFilename

SpecName == InitName /\ [][NextName]_vars

----------------------------------------------------------------------------
(* sync_service.py over gio_utils.py: the operations on the watch's music.  *)

MaxItems == 2

\* The music directory of the watch and its parent.
MusicDir == "Music"
MusicParent == "mtp"

\* A path handed to an operation: a regular file, a directory, or a path
\* that does not exist.
Item(name, kind, stem, suffix) == [name |-> name, kind |-> kind, stem |-> stem, suffix |-> suffix]
SongMp3 == Item("a.mp3", "file", "a", ".mp3")
SongFlac == Item("b.flac", "file", "b", ".flac")
Album == Item("album", "dir", "album", "")
Gone == Item("gone.mp3", "missing", "gone", ".mp3")
OldSong == Item("old.mp3", "file", "old", ".mp3")

\* The children the music directory can have, in the order gio list prints them.
MusicEntries == <<SongMp3, Album, Item("b.mp3", "file", "b", ".mp3"), OldSong>>

RECURSIVE Only(_, _, _)
\* The entries of s, from the i-th on, that test accepts, in order.
Only(s, keep, i) ==
    IF i > Len(s) THEN <<>>
    ELSE (IF keep[i] THEN <<s[i]>> ELSE <<>>) \o Only(s, keep, i + 1)

\* gio list of the music directory, when it succeeds.
Children(w) == Only(MusicEntries, [i \in DOMAIN MusicEntries |-> MusicEntries[i].name \in w], 1)

\* sorted(p for p in src_dir.iterdir() if p.is_file())
RegularFiles(found) == Only(found, [i \in DOMAIN found |-> found[i].kind = "file"], 1)

\* One gio command: result "ok" or "failed", or "ignored" where the caller
\* neither tests nor logs it (ensure_directory with log=None).
GioCall(cmd, arg, result) == [cmd |-> cmd, arg |-> arg, result |-> result]
Result(ok) == IF ok THEN "ok" ELSE "failed"
ensure_directory(path) == GioCall("make-directory", path, "ignored")

Line(text, item) == [text |-> text, item |-> item]

\* maybe_convert_to_mp3: whether the file goes through ffmpeg, and the name
\* it is copied under.
NeedsConversion(item, enable) == enable /\ item.suffix # ".mp3"
DestName(item, enable) == IF NeedsConversion(item, enable) THEN item.stem \o ".mp3" ELSE item.name

\* run_task starts a task only when none is running; calls and log are those
\* of the task last started.
SyncIdle == sync.state = "idle"
Running(phases) == sync.state = "running" /\ sync.phase \in phases
InLoop(phases) == Running(phases) /\ sync.pos <= Len(sync.items)
Cur == sync.items[sync.pos]

Begin(op, phase, items, convert, source) ==
    [op |-> op, phase |-> phase, items |-> items, pos |-> 1, convert |-> convert,
     source |-> source, state |-> "running", raised |-> ""]

SyncFrame == UNCHANGED <<manifestVars, device, tabVars, workoutVars, storeVars, surfaceVars, clientVars>>

\* wipe_watch_music up to wipe_directory.
WipePrologue ==
    /\ log' = <<Line("Wiping", MusicDir)>>
    /\ calls' = <<ensure_directory(MusicParent), ensure_directory(MusicDir)>>
    /\ watch' = watch

StartWipe ==
    /\ SyncIdle
    /\ sync' = Begin("wipe_watch_music", "list", <<>>, FALSE, NoSource)
    /\ WipePrologue
    /\ SyncFrame

\* A full_sync that looks for the source directory before it wipes.
StartFullSync_checked(source, convert) ==
    /\ SyncIdle
    /\ IF source.exists
       THEN /\ sync' = Begin("full_sync", "list", <<>>, convert, source)
            /\ WipePrologue
       ELSE /\ sync' = [Begin("full_sync", "list", <<>>, convert, source)
                           EXCEPT !.state = "failed", !.raised = "FileNotFoundError"]
            /\ log' = <<>>
            /\ calls' = <<>>
            /\ watch' = watch
    /\ SyncFrame

StartFullSync(source, convert) ==
    /\ SyncIdle
    /\ sync' = Begin("full_sync", "list", <<>>, convert, source)
    /\ WipePrologue
    /\ SyncFrame

\* wipe_directory: gio_list, which gives [] when gio fails.
WipeList(ok) ==
    /\ Running({"list"})
    /\ calls' = Append(calls, GioCall("list", MusicDir, Result(ok)))
    /\ sync' = [sync EXCEPT !.phase = "remove", !.items = IF ok THEN Children(watch) ELSE <<>>]
    /\ UNCHANGED <<watch, log>>
    /\ SyncFrame

\* A removal that raises when gio fails.
WipeRemove_checked(ok) ==
    /\ InLoop({"remove"})
    /\ calls' = Append(calls, GioCall("remove", Cur.name, Result(ok)))
    /\ log' = Append(log, Line("Removing", Cur.name))
    /\ watch' = IF ok THEN watch \ {Cur.name} ELSE watch
    /\ sync' = IF ok THEN [sync EXCEPT !.pos = sync.pos + 1]
               ELSE [sync EXCEPT !.state = "failed", !.raised = "GioError"]
    /\ SyncFrame

\* wipe_directory, one turn: the log line, then gio_remove and its log line.
WipeRemove(ok) ==
    /\ InLoop({"remove"})
    /\ calls' = Append(calls, GioCall("remove", Cur.name, Result(ok)))
    /\ log' = log \o <<Line("Removing", Cur.name),
                       Line(IF ok THEN "Removed" ELSE "Failed to remove", Cur.name)>>
    /\ watch' = IF ok THEN watch \ {Cur.name} ELSE watch
    /\ sync' = [sync EXCEPT !.pos = sync.pos + 1]
    /\ SyncFrame

\* wipe_watch_music returns.
WipeEnd ==
    /\ Running({"remove"})
    /\ sync.pos > Len(sync.items)
    /\ sync.op = "wipe_watch_music"
    /\ sync' = [sync EXCEPT !.state = "done"]
    /\ UNCHANGED <<watch, calls, log>>
    /\ SyncFrame

Begun(state, raised, files, lines, gio) ==
    [state |-> state, raised |-> raised, files |-> files, log |-> lines, calls |-> gio]

\* copy_library_to_watch that makes the music directory before it looks for files.
copy_library_begin_eager(source) ==
    IF ~source.exists THEN Begun("failed", "FileNotFoundError", <<>>, <<>>, <<>>)
    ELSE IF RegularFiles(source.entries) = <<>>
         THEN Begun("done", "", <<>>,
                    <<Line("Copying files", MusicDir), Line("No files found", "src")>>,
                    <<ensure_directory(MusicDir)>>)
         ELSE Begun("running", "", RegularFiles(source.entries),
                    <<Line("Copying files", MusicDir)>>, <<ensure_directory(MusicDir)>>)

\* copy_library_to_watch up to its loop.
copy_library_begin(source) ==
    IF ~source.exists THEN Begun("failed", "FileNotFoundError", <<>>, <<>>, <<>>)
    ELSE IF RegularFiles(source.entries) = <<>>
         THEN Begun("done", "", <<>>,
                    <<Line("Copying files", MusicDir), Line("No files found", "src")>>, <<>>)
         ELSE Begun("running", "", RegularFiles(source.entries),
                    <<Line("Copying files", MusicDir)>>, <<ensure_directory(MusicDir)>>)

StartCopyLibrary(source, convert) ==
    LET b == copy_library_begin(source)
    IN /\ SyncIdle
       /\ sync' = [Begin("copy_library_to_watch", "copy", b.files, convert, source)
                      EXCEPT !.state = b.state, !.raised = b.raised]
       /\ log' = b.log
       /\ calls' = b.calls
       /\ watch' = watch
       /\ SyncFrame

\* A full_sync whose copy starts while the wipe is still removing.
FullSyncCopy_early ==
    LET b == copy_library_begin(sync.source)
    IN /\ Running({"remove"})
       /\ sync.op = "full_sync"
       /\ sync' = [sync EXCEPT !.phase = "copy", !.items = b.files, !.pos = 1,
                               !.state = b.state, !.raised = b.raised]
       /\ log' = log \o b.log
       /\ calls' = calls \o b.calls
       /\ watch' = watch
       /\ SyncFrame

\* full_sync: wipe_watch_music returned, copy_library_to_watch begins.
FullSyncCopy ==
    LET b == copy_library_begin(sync.source)
    IN /\ Running({"remove"})
       /\ sync.pos > Len(sync.items)
       /\ sync.op = "full_sync"
       /\ sync' = [sync EXCEPT !.phase = "copy", !.items = b.files, !.pos = 1,
                               !.state = b.state, !.raised = b.raised]
       /\ log' = log \o b.log
       /\ calls' = calls \o b.calls
       /\ watch' = watch
       /\ SyncFrame

\* _copy_local_file_to_watch: the conversion, if any, succeeds; then
\* _gio_copy_with_log, which logs the result of gio copy and returns.
CopyFile(ok) ==
    /\ InLoop({"copy", "to_watch"})
    /\ Cur.kind = "file"
    /\ log' = log \o (IF NeedsConversion(Cur, sync.convert) THEN <<Line("Converting", Cur.name)>> ELSE <<>>)
                  \o <<Line(IF ok THEN "Copied" ELSE "Failed to copy", Cur.name)>>
    /\ calls' = calls \o <<ensure_directory(MusicDir),
                           GioCall("copy", DestName(Cur, sync.convert), Result(ok))>>
    /\ watch' = IF ok THEN watch \cup {DestName(Cur, sync.convert)} ELSE watch
    /\ sync' = [sync EXCEPT !.pos = sync.pos + 1]
    /\ SyncFrame

\* convert_file_to_mp3 raises FFmpegError: ffmpeg is not installed, or it
\* exits non-zero after the "Converting" line.  Nothing catches it.
ConvertFail(kind) ==
    /\ InLoop({"copy", "to_watch"})
    /\ Cur.kind = "file"
    /\ NeedsConversion(Cur, sync.convert)
    /\ log' = IF kind = "failed" THEN Append(log, Line("Converting", Cur.name)) ELSE log
    /\ sync' = [sync EXCEPT !.state = "failed", !.raised = "FFmpegError"]
    /\ UNCHANGED <<watch, calls>>
    /\ SyncFrame

StartCopyLocalItems(items, convert) ==
    /\ SyncIdle
    /\ sync' = Begin("copy_local_items_to_watch", "to_watch", items, convert, NoSource)
    /\ log' = <<>>
    /\ calls' = <<ensure_directory(MusicDir)>>
    /\ watch' = watch
    /\ SyncFrame

\* copy_local_items_to_watch: `if not path.exists(): continue`
SkipMissing ==
    /\ InLoop({"to_watch"})
    /\ Cur.kind = "missing"
    /\ sync' = [sync EXCEPT !.pos = sync.pos + 1]
    /\ UNCHANGED <<watch, calls, log>>
    /\ SyncFrame

\* _copy_local_directory_to_watch
CopyDirectory(ok) ==
    /\ InLoop({"to_watch"})
    /\ Cur.kind = "dir"
    /\ log' = log \o <<Line("Copying directory", Cur.name),
                       Line(IF ok THEN "Copied folder" ELSE "Failed copying", Cur.name)>>
    /\ calls' = calls \o <<ensure_directory(MusicDir), GioCall("copy -r", Cur.name, Result(ok))>>
    /\ watch' = IF ok THEN watch \cup {Cur.name} ELSE watch
    /\ sync' = [sync EXCEPT !.pos = sync.pos + 1]
    /\ SyncFrame

StartCopyWatchItems(items) ==
    /\ SyncIdle
    /\ sync' = Begin("copy_watch_items_to_local", "to_local", items, FALSE, NoSource)
    /\ log' = <<>>
    /\ calls' = <<>>
    /\ watch' = watch
    /\ SyncFrame

\* copy_watch_items_to_local, one turn: _gio_copy_with_log into the local folder.
CopyToLocal(ok) ==
    /\ InLoop({"to_local"})
    /\ calls' = Append(calls, GioCall(IF Cur.kind = "dir" THEN "copy -r" ELSE "copy", Cur.name, Result(ok)))
    /\ log' = Append(log, Line(IF ok THEN "Copied" ELSE "Failed to copy", Cur.name))
    /\ local' = IF ok THEN [n \in DOMAIN local \cup {Cur.name} |->
                               IF n = Cur.name THEN Cur.name ELSE local[n]]
                ELSE local
    /\ sync' = [sync EXCEPT !.pos = sync.pos + 1]
    /\ watch' = watch
    /\ UNCHANGED <<manifestVars, device, entries, batch, pos, upload_ids, pc, garmin, accepted,
                   workoutVars, storeVars, surfaceVars, clientVars>>

StartDeleteItems(items) ==
    /\ SyncIdle
    /\ sync' = Begin("delete_watch_items", "delete", items, FALSE, NoSource)
    /\ log' = <<>>
    /\ calls' = <<>>
    /\ watch' = watch
    /\ SyncFrame

\* delete_watch_items, one turn.
DeleteItem(ok) ==
    /\ InLoop({"delete"})
    /\ calls' = Append(calls, GioCall("remove", Cur.name, Result(ok)))
    /\ log' = log \o <<Line("Removing", Cur.name),
                       Line(IF ok THEN "Removed" ELSE "Failed to remove", Cur.name)>>
    /\ watch' = IF ok THEN watch \ {Cur.name} ELSE watch
    /\ sync' = [sync EXCEPT !.pos = sync.pos + 1]
    /\ SyncFrame

\* The loop is over and the operation returns.
SyncEnd ==
    /\ Running({"copy", "to_watch", "to_local", "delete"})
    /\ sync.pos > Len(sync.items)
    /\ sync' = [sync EXCEPT !.state = "done"]
    /\ UNCHANGED <<watch, calls, log>>
    /\ SyncFrame

\* _task_finished, _task_error: the task is over and the next may start.
TaskOver ==
    /\ sync.state \in {"done", "failed"}
    /\ sync' = NoSync
    /\ calls' = <<>>
    /\ log' = <<>>
    /\ watch' = watch
    /\ SyncFrame

\* The source directories of copy_library_to_watch and full_sync.
Sources ==
    { NoSource,
      [exists |-> TRUE, entries |-> <<>>],
      [exists |-> TRUE, entries |-> <<Album>>],
      [exists |-> TRUE, entries |-> <<SongMp3>>],
      [exists |-> TRUE, entries |-> <<SongMp3, Album, SongFlac>>] }

\* Lists of up to MaxItems of these.
ListsOf(S) == UNION {[1..n -> S] : n \in 0..MaxItems}

\* The selections of the explorer: local paths, and entries of the watch.
LocalSelections == ListsOf({SongMp3, SongFlac, Album, Gone})
WatchSelections == ListsOf({SongMp3, Album})

InitSync ==
    /\ payload = EmptyDict
    /\ file = NoFile
    /\ clock = 0
    /\ last = NoCall
    /\ IdleTab
    /\ IdleWorkout
    /\ IdleStore
    /\ watch \in {{}, {"a.mp3", "old.mp3"}}
    /\ calls = <<>>
    /\ log = <<>>
    /\ sync = NoSync
    /\ IdleSurfaces
    /\ IdleClient

NextSync ==
    \/ StartWipe
    \/ \E source \in Sources, convert \in BOOLEAN : StartFullSync(source, convert)
    \/ \E ok \in BOOLEAN : WipeList(ok)
    \/ \E ok \in BOOLEAN : WipeRemove(ok)
    \/ WipeEnd
    \/ \E source \in Sources, convert \in BOOLEAN : StartCopyLibrary(source, convert)
    \/ FullSyncCopy
    \/ \E ok \in BOOLEAN : CopyFile(ok)
    \/ \E kind \in {"unavailable", "failed"} : ConvertFail(kind)
    \/ \E items \in LocalSelections, convert \in BOOLEAN : StartCopyLocalItems(items, convert)
    \/ SkipMissing
    \/ \E ok \in BOOLEAN : CopyDirectory(ok)
    \/ \E items \in WatchSelections : StartCopyWatchItems(items)
    \/ \E ok \in BOOLEAN : CopyToLocal(ok)
    \/ \E items \in WatchSelections : StartDeleteItems(items)
    \/ \E ok \in BOOLEAN : DeleteItem(ok)
    \/ SyncEnd
    \/ TaskOver

SpecSync == InitSync /\ [][NextSync]_vars

---------------------------------------------------------------------------
(* Claims about the manifest.                                              *)

IsMapping == payload.t = "dict"
HasRecord(p) == IsMapping /\ p \in DOMAIN payload.v
\* The fields a record stores; a record written by mark_copied alone stores
\* no uploaded flag (not uploaded) and no upload id (null).
StoredHash(p) == DictGet(payload.v[p].v, "sha256")
StoredFlag(p) == IF "uploaded" \in DOMAIN payload.v[p].v THEN payload.v[p].v["uploaded"] ELSE PyBool(FALSE)
StoredId(p) == DictGet(payload.v[p].v, "upload_id")
StoredStamp(p) == DictGet(payload.v[p].v, "last_uploaded")

NotUploaded == Returned(<<PyBool(FALSE), PyNone>>)

\* C1: is_uploaded(p, h) returns (false, null) when the manifest has no record
\* for p or the record's stored hash differs from h, and otherwise exactly the
\* record's stored uploaded flag and stored upload id.
C1_IsUploadedIsHashGated ==
    last.op = "is_uploaded" =>
        /\ last.raised = ""
        /\ (~HasRecord(last.path) \/ StoredHash(last.path) # PyStr(last.sha))
              => last.value = <<PyBool(FALSE), PyNone>>
        /\ (HasRecord(last.path) /\ StoredHash(last.path) = PyStr(last.sha))
              => last.value = <<StoredFlag(last.path), StoredId(last.path)>>

C1_Witness ==
    /\ last.op = "is_uploaded"
    /\ HasRecord(last.path)
    /\ StoredHash(last.path) = PyStr(last.sha)
    /\ last.value = <<PyBool(TRUE), PyStr("u2")>>

\* C2: right after mark_uploaded(p, h, id), whatever came before, is_uploaded(p, h)
\* is (true, id) and is_uploaded(p, h2) is (false, null) for every h2 # h.
C2_MarkUploadedThenLookup ==
    last.op = "mark_uploaded" =>
        /\ last.raised = ""
        /\ \A h2 \in ManifestDigests :
              is_uploaded(payload, last.path, h2) =
                  IF h2 = last.sha THEN Returned(<<PyBool(TRUE), last.id>>) ELSE NotUploaded

\* mark_uploaded with a null id, after time has passed, on a manifest that
\* holds a record for every path.
C2_Witness ==
    /\ last.op = "mark_uploaded"
    /\ last.id = PyNone
    /\ clock > 0
    /\ StoredStamp(last.path) = isoformat(clock)
    /\ \A p \in ManifestPaths : HasRecord(p)

\* C3: mark_copied(p, h2) on a path that has a record leaves the record's hash,
\* uploaded flag, upload id and timestamp as they were, for any h2, so every
\* is_uploaded(p, h) answers after it as before it.
C3_MarkCopiedKeepsRecord ==
    [][(last'.op = "mark_copied" /\ HasRecord(last'.path)) =>
          /\ payload'.v[last'.path] = payload.v[last'.path]
          /\ \A h \in ManifestDigests :
                is_uploaded(payload', last'.path, h) = is_uploaded(payload, last'.path, h)]_vars

\* mark_copied with another hash ran on a record that is uploaded.
C3_Witness ==
    /\ last.op = "mark_copied"
    /\ last.raised = ""
    /\ HasRecord(last.path)
    /\ StoredHash(last.path) # PyStr(last.sha)
    /\ is_uploaded(payload, last.path, StoredHash(last.path).v) = Returned(<<PyBool(TRUE), PyStr("u1")>>)

\* C7: after every completed mark_uploaded or mark_copied the persisted document
\* equals the in-memory mapping, and a manifest newly constructed from the file
\* answers every is_uploaded query as the live one does.
C7_WriteThrough ==
    (last.op \in {"mark_uploaded", "mark_copied"} /\ last.raised = "") =>
        /\ file.exists
        /\ _load(file) = Outcome(payload, "")
        /\ \A p \in ManifestPaths, h \in ManifestDigests :
              is_uploaded(_load(file).payload, p, h) = is_uploaded(payload, p, h)

\* mark_copied completed on a manifest that holds an uploaded record with a null id.
C7_Witness ==
    /\ last.op = "mark_copied"
    /\ last.raised = ""
    /\ \E p \in ManifestPaths :
          /\ p # last.path
          /\ HasRecord(p)
          /\ StoredFlag(p) = PyBool(TRUE)
          /\ StoredId(p) = PyNone
    /\ "uploaded" \notin DOMAIN payload.v[last.path].v

\* C8: a manifest constructed over any content that is not a valid manifest
\* mapping is constructed without failure and is empty, and no later
\* is_uploaded, mark_uploaded or mark_copied fails.
C8_MalformedLoadsEmpty ==
    /\ (last.op = "__init__" /\ file.exists /\ ~ValidManifestText(file.text))
          => (last.raised = "" /\ payload = EmptyDict)
    /\ last.op \in {"is_uploaded", "mark_uploaded", "mark_copied"} => last.raised = ""

\* C9: a manifest constructed after the file was deleted is empty: construction
\* raises nothing and is_uploaded is (false, null) for every path and hash.
C9_DeletedFileLoadsEmpty ==
    (last.op = "__init__" /\ ~file.exists) =>
        /\ last.raised = ""
        /\ payload = EmptyDict
        /\ \A p \in ManifestPaths, h \in ManifestDigests : is_uploaded(payload, p, h) = NotUploaded

\* Construction over a deleted file, replacing a manifest that held both paths.
C9_Witness ==
    /\ last.op = "__init__"
    /\ ~file.exists
    /\ last.value = <<ManifestPaths>>
    /\ payload = EmptyDict

---------------------------------------------------------------------------
(* Claims about the repository and the activities surface.                 *)

RowOf(rel) == {i \in DOMAIN entries : entries[i].relative_path = rel}

\* C4: scan looks every file up with the hash of its current content: an entry
\* whose file was marked uploaded with another hash than its content has now
\* is presented with uploaded = false and a null upload id.
C4_ScanIgnoresStaleRecord ==
    last.op = "scan" =>
        \A i \in DOMAIN entries :
            LET e == entries[i]
            IN /\ e.relative_path \in DOMAIN device
               /\ e.sha256 = hash_file(device[e.relative_path])
               /\ (HasRecord(e.relative_path) /\ StoredHash(e.relative_path) # PyStr(e.sha256))
                     => (e.uploaded = PyBool(FALSE) /\ e.upload_id = PyNone)

\* A scan presents a re-recorded file as not uploaded while the manifest still
\* holds the uploaded record of the file's earlier content.
C4_Witness ==
    /\ last.op = "scan"
    /\ \E i \in DOMAIN entries :
          LET e == entries[i]
          IN /\ HasRecord(e.relative_path)
             /\ StoredFlag(e.relative_path) = PyBool(TRUE)
             /\ StoredHash(e.relative_path) = PyStr(hash_file(TabDevice[e.relative_path]))
             /\ e.sha256 # hash_file(TabDevice[e.relative_path])
             /\ e.uploaded = PyBool(FALSE)
             /\ e.upload_id = PyNone

UploadedRecord(p, rel) ==
    /\ p.t = "dict"
    /\ rel \in DOMAIN p.v
    /\ DictGet(p.v[rel].v, "uploaded") = PyBool(TRUE)

\* C5 as stated: every record with uploaded = true belongs to an entry for
\* which upload_activity succeeded before.
C5_UploadedOnlyAfterUpload ==
    \A rel \in RelPaths :
        UploadedRecord(payload, rel) => <<rel, StoredHash(rel).v>> \in accepted

\* C5 as amended: every write of uploaded = true for an entry is preceded by a
\* successful upload_activity call for that entry, or is made by
\* mark_selected_uploaded, which calls no upload and stores a null id.
C5_UploadedAfterUploadOrManualMark ==
    [][\A rel \in RelPaths :
          (/\ UploadedRecord(payload', rel)
           /\ (rel \notin DOMAIN payload.v \/ payload.v[rel] # payload'.v[rel]))
          => \/ <<rel, payload'.v[rel].v["sha256"].v>> \in accepted
             \/ /\ last'.op = "mark_selected_uploaded"
                /\ payload'.v[rel].v["upload_id"] = PyNone]_vars

\* An upload batch has just marked an entry with the id the service gave,
\* while another record was marked by hand with no upload.
C5_Witness ==
    /\ last.op = "upload_finished"
    /\ \E rel \in RelPaths :
          /\ UploadedRecord(payload, rel)
          /\ StoredId(rel) = PyStr("u1")
          /\ <<rel, StoredHash(rel).v>> \in accepted
    /\ \E rel \in RelPaths :
          /\ UploadedRecord(payload, rel)
          /\ StoredId(rel) = PyNone
          /\ <<rel, StoredHash(rel).v>> \notin accepted

\* C6: while a batch upload is in flight, every earlier item of the batch whose
\* upload succeeded is recorded as uploaded in the persisted manifest, so a
\* failure or crash at the item in hand loses no earlier progress.
C6_UploadProgressDurable ==
    pc = "uploading" =>
        \A i \in 1..(pos - 1) :
            is_uploaded(_load(file).payload, batch[i].relative_path, batch[i].sha256)
                = Returned(<<PyBool(TRUE), upload_ids[i]>>)

HasTime(e) == e.recorded_time # PyNone

\* C10: scan returns its entries by recorded time, newest first, and every
\* entry without a recorded time after every entry that has one.
C10_ScanSortedNewestFirst ==
    last.op = "scan" =>
        \A i \in DOMAIN entries, j \in DOMAIN entries :
            i < j =>
                /\ (HasTime(entries[i]) /\ HasTime(entries[j]))
                      => entries[i].recorded_time.v >= entries[j].recorded_time.v
                /\ ~HasTime(entries[i]) => ~HasTime(entries[j])

\* The file listed first has no recorded time and ends up behind two entries
\* of different times that were listed oldest first, and ahead of the other
\* entry that has no time.
C10_Witness ==
    /\ last.op = "scan"
    /\ Len(entries) = 4
    /\ entries[3].relative_path = RelPath(ACTIVITY_DIRS[1], FileNames[1])
    /\ ~HasTime(entries[3]) /\ ~HasTime(entries[4])
    /\ HasTime(entries[1]) /\ HasTime(entries[2])
    /\ entries[1].recorded_time.v > entries[2].recorded_time.v
    /\ entries[1].source = DirName[2]
    /\ entries[2].source = DirName[1]

Unreadable(rel) == hash_file_raises(device[rel])
FitFails(rel) == device[rel].fit = "corrupt"

\* The manifest state scan has to present for a file: the stored flag and id
\* when the record's hash is the hash of the file's content, else not uploaded.
ManifestState(rel) ==
    IF HasRecord(rel) /\ StoredHash(rel) = PyStr(hash_file(device[rel]))
    THEN <<StoredFlag(rel), StoredId(rel)>>
    ELSE <<PyBool(FALSE), PyNone>>

\* C11: a file whose FIT metadata cannot be read does not abort the scan: the
\* scan returns, with exactly one entry for every file of the watch, and the
\* entry of the failing file has a null recorded time, sport and duration and
\* the hash, size and manifest state of the file.
C11_MetadataFailureAbsorbed ==
    /\ last.op # "scan_failed"
    /\ last.op = "scan" =>
          \A rel \in DOMAIN device :
              /\ Cardinality(RowOf(rel)) = 1
              /\ FitFails(rel) =>
                    \A i \in RowOf(rel) :
                        /\ entries[i].recorded_time = PyNone
                        /\ entries[i].sport = PyNone
                        /\ entries[i].duration_seconds = PyNone
                        /\ entries[i].sha256 = hash_file(device[rel])
                        /\ entries[i].size_bytes = Len(device[rel].bytes)
                        /\ <<entries[i].uploaded, entries[i].upload_id>> = ManifestState(rel)

\* A scan returned the entry of a file that is not a FIT file and was marked
\* uploaded, next to the entry of a readable activity.
C11_Witness ==
    /\ last.op = "scan"
    /\ \E rel \in DOMAIN device :
          /\ FitFails(rel)
          /\ \E i \in RowOf(rel) : entries[i].uploaded = PyBool(TRUE) /\ entries[i].recorded_time = PyNone
    /\ \E i \in DOMAIN entries : entries[i].recorded_time # PyNone

\* C12: a file whose content cannot be read while scan hashes it is absorbed
\* per file: the scan returns and holds an entry for every other file.
C12_HashFailureAbsorbed ==
    (last.op \in {"scan", "scan_failed"} /\ \E rel \in DOMAIN device : Unreadable(rel)) =>
        /\ last.op = "scan"
        /\ \A rel \in DOMAIN device : ~Unreadable(rel) => RowOf(rel) # {}

\* C13: scan is idempotent and reads only: a scan changes neither the manifest
\* nor the files of the watch, and a scan that follows an earlier scan of the
\* same watch, with no change to the files or the manifest in between, returns
\* the same entries, field by field and in the same order.
C13_ScanIdempotent ==
    [][(pc = "scanning" /\ pc' = "idle") =>
          /\ payload' = payload
          /\ file' = file
          /\ device' = device
          /\ entries # <<>> =>
                /\ last'.op = "scan"
                /\ Len(entries') = Len(entries)
                /\ \A i \in DOMAIN entries : entries'[i] = entries[i]]_vars

\* The entries every scan after the first returns again: four files, one of
\* them presented as uploaded, two of them without a recorded time.
C13_Witness ==
    /\ last.op = "scan"
    /\ pc = "idle"
    /\ Len(entries) = 4
    /\ \E i \in DOMAIN entries : entries[i].uploaded = PyBool(TRUE)
    /\ \E i \in DOMAIN entries : entries[i].uploaded = PyBool(FALSE)
    /\ Cardinality({i \in DOMAIN entries : entries[i].recorded_time = PyNone}) = 2

Persisted == RecordedPaths(_load(file).payload)

\* C14: when the copy of the entry at position k fails, the failure leaves
\* copy_to_local and ends the task: the entry at k and the entries after it
\* are neither copied nor marked, and the records mark_copied wrote for the
\* entries before k are still in the persisted manifest.
C14_CopyFailureStopsBatch ==
    [][(pc = "copying" /\ last'.op = "copy_failed") =>
          /\ last'.raised # ""
          /\ last'.path = batch[pos].relative_path
          /\ pc' = "idle"
          /\ batch' = <<>>
          /\ payload' = payload
          /\ file' = file
          /\ local' = local
          /\ \A i \in 1..(pos - 1) :
                batch[i].relative_path \in RecordedPaths(_load(file').payload)]_vars

\* The copy of the second entry of a batch failed: the first entry was copied
\* in this batch and its record is in the persisted manifest, the failing
\* entry has no record.
C14_Witness ==
    /\ last.op = "copy_failed"
    /\ pc = "idle"
    /\ DOMAIN local # {}
    /\ last.path \notin Persisted
    /\ \E rel \in Persisted : rel # last.path /\ "uploaded" \notin DOMAIN payload.v[rel].v

\* The positions of the entries list that the call pairs with an id and that
\* name this path.
PairedAt(es, ids, rel) ==
    {i \in 1..Min(Len(es), Len(ids)) : es[i].relative_path = rel}

\* C15: ActivityRepository.mark_uploaded with lists of any two lengths raises
\* nothing and marks exactly the first min(len(entries), len(upload_ids))
\* entries, the i-th entry with the i-th id; the records of every other path,
\* the entries past the shorter length among them, are as they were.
C15_MarkUploadedZipsShorter ==
    [][last'.op = "Repository.mark_uploaded" =>
          /\ last'.raised = ""
          /\ payload'.t = "dict"
          /\ \A rel \in RelPaths :
                IF PairedAt(batch', upload_ids', rel) # {}
                THEN \A i \in PairedAt(batch', upload_ids', rel) :
                        /\ rel \in DOMAIN payload'.v
                        /\ DictGet(payload'.v[rel].v, "sha256") = PyStr(batch'[i].sha256)
                        /\ DictGet(payload'.v[rel].v, "uploaded") = PyBool(TRUE)
                        /\ DictGet(payload'.v[rel].v, "upload_id") = upload_ids'[i]
                        /\ rel \in RecordedPaths(_load(file').payload)
                ELSE /\ (rel \in DOMAIN payload'.v) = (rel \in DOMAIN payload.v)
                     /\ rel \in DOMAIN payload.v => payload'.v[rel] = payload.v[rel]]_vars

\* A call with two entries and one id marked the first entry with that id and
\* left the second entry, marked earlier with another id, as it was.
C15_Witness ==
    /\ last.op = "Repository.mark_uploaded"
    /\ last.raised = ""
    /\ Len(batch) = 2
    /\ Len(upload_ids) = 1
    /\ HasRecord(batch[1].relative_path)
    /\ StoredId(batch[1].relative_path) = upload_ids[1]
    /\ HasRecord(batch[2].relative_path)
    /\ StoredId(batch[2].relative_path) # upload_ids[1]

WasBuilt == last.op = "build_payload"
\* The top-level step list of the payload's only segment.
TopSteps == built.workoutSegments[1].workoutSteps
StepKey(step) == step.stepType.stepTypeKey
IsRepeat(step) == step.type = "RepeatGroupDTO"
Clamp(n) == IF n < 0 THEN 0 ELSE n
Count(b) == IF b THEN 1 ELSE 0

\* C16: for every integer value of the five fields, the negative ones too, the
\* estimated duration is max(0, warmup) + max(0, cooldown) + max(0, repeats) *
\* (max(0, interval) + max(0, recovery)); warmup 300, interval 60, recovery 60,
\* repeats 6, cooldown 300 give 1320.
C16_EstimatedDurationClamped ==
    WasBuilt =>
        /\ built.estimatedDurationInSecs =
              Clamp(template.warmup_seconds) + Clamp(template.cooldown_seconds)
                  + Clamp(template.repeats)
                      * (Clamp(template.interval_seconds) + Clamp(template.recovery_seconds))
        /\ (/\ template.warmup_seconds = 300 /\ template.interval_seconds = 60
            /\ template.recovery_seconds = 60 /\ template.repeats = 6
            /\ template.cooldown_seconds = 300) => built.estimatedDurationInSecs = 1320

\* A template with a negative warmup and a negative recovery was built: only
\* the cooldown and the six intervals count.
C16_Witness ==
    /\ WasBuilt
    /\ template.warmup_seconds < 0
    /\ template.recovery_seconds < 0
    /\ template.repeats = 6
    /\ template.interval_seconds = 60
    /\ template.cooldown_seconds = 300
    /\ built.estimatedDurationInSecs = 660

\* The kinds of the top-level steps the claim expects, in order.
ExpectedKinds(t) ==
    (IF t.warmup_seconds > 0 THEN <<"warmup">> ELSE <<>>)
        \o (IF t.repeats > 0 /\ t.interval_seconds > 0 THEN <<"repeat">> ELSE <<>>)
        \o (IF t.cooldown_seconds > 0 THEN <<"cooldown">> ELSE <<>>)

\* C17: the top-level step list holds exactly [warmup > 0] + [repeats > 0 and
\* interval > 0] + [cooldown > 0] steps, in the order warmup, repeat block,
\* cooldown; with repeats = 0 there is no repeat block, whatever the interval.
C17_TopLevelSteps ==
    WasBuilt =>
        /\ Len(TopSteps) = Count(template.warmup_seconds > 0)
                            + Count(template.repeats > 0 /\ template.interval_seconds > 0)
                            + Count(template.cooldown_seconds > 0)
        /\ [i \in DOMAIN TopSteps |-> StepKey(TopSteps[i])] = ExpectedKinds(template)
        /\ template.repeats = 0 => \A i \in DOMAIN TopSteps : ~IsRepeat(TopSteps[i])

\* A template with repeats = 0 and a positive interval was built: warmup and
\* cooldown only.
C17_Witness ==
    /\ WasBuilt
    /\ template.repeats = 0
    /\ template.interval_seconds > 0
    /\ Len(TopSteps) = 2
    /\ StepKey(TopSteps[1]) = "warmup"
    /\ StepKey(TopSteps[2]) = "cooldown"

RECURSIVE EmittedFrom(_, _)
\* Every step of the payload in emission order: a repeat block, then its children.
EmittedFrom(steps, i) ==
    IF i > Len(steps) THEN <<>>
    ELSE (IF IsRepeat(steps[i]) THEN <<steps[i]>> \o steps[i].workoutSteps ELSE <<steps[i]>>)
            \o EmittedFrom(steps, i + 1)
Emitted == EmittedFrom(TopSteps, 1)

\* C18: the step-order indices come from one running counter that starts at 1:
\* in emission order each step takes the next index, so a repeat block at n has
\* its children at n + 1 and n + 2, and no two steps of the payload, top-level
\* or child, carry the same index.
C18_StepOrderRunningCounter ==
    WasBuilt =>
        /\ \A i \in DOMAIN Emitted : Emitted[i].stepOrder = i
        /\ \A i \in DOMAIN Emitted, j \in DOMAIN Emitted :
              Emitted[i].stepOrder = Emitted[j].stepOrder => i = j

\* C19: a repeat block has exactly two children, the interval step then the
\* recovery step, each ending on elapsed time after the template's interval
\* and recovery seconds and with the no-target marker; the block's iteration
\* count is the template's repeats and it ends on iterations, with that value.
C19_RepeatBlockShape ==
    WasBuilt =>
        \A i \in DOMAIN TopSteps :
            IsRepeat(TopSteps[i]) =>
                LET block == TopSteps[i]
                    kids == block.workoutSteps
                IN /\ Len(kids) = 2
                   /\ StepKey(kids[1]) = "interval"
                   /\ StepKey(kids[2]) = "recovery"
                   /\ kids[1].endConditionValue.v = template.interval_seconds
                   /\ kids[2].endConditionValue.v = template.recovery_seconds
                   /\ \A k \in 1..2 :
                         /\ kids[k].endCondition.conditionTypeKey = "time"
                         /\ kids[k].targetType.workoutTargetTypeKey = "no.target"
                   /\ block.numberOfIterations = template.repeats
                   /\ block.endCondition.conditionTypeKey = "iterations"
                   /\ block.endConditionValue.v = template.repeats

\* A template with 6 repeats of 60 seconds and 45 seconds of recovery was
\* built: the block iterates 6 times over its two children.
C19_Witness ==
    /\ WasBuilt
    /\ template.repeats = 6
    /\ template.interval_seconds = 60
    /\ template.recovery_seconds = 45
    /\ \E i \in DOMAIN TopSteps :
          /\ IsRepeat(TopSteps[i])
          /\ TopSteps[i].numberOfIterations = 6
          /\ Len(TopSteps[i].workoutSteps) = 2

\* C20: build_payload returns a payload for every template; a sport tag that
\* is not in the table gives the running descriptor, in the payload and in the
\* segment; a template with no warmup, no cooldown and no repeat block gives
\* exactly one segment, of order 1, with an empty step list.
C20_BuildPayloadTotal ==
    WasBuilt =>
        /\ DOMAIN built = {"workoutName", "sportType", "estimatedDurationInSecs", "workoutSegments"}
        /\ template.sport \notin DOMAIN SPORT_TYPES =>
              /\ built.sportType = SPORT_TYPES["running"]
              /\ built.workoutSegments[1].sportType = SPORT_TYPES["running"]
        /\ (/\ template.warmup_seconds <= 0
            /\ template.cooldown_seconds <= 0
            /\ (template.repeats <= 0 \/ template.interval_seconds <= 0)) =>
              /\ Len(built.workoutSegments) = 1
              /\ built.workoutSegments[1].segmentOrder = 1
              /\ built.workoutSegments[1].workoutSteps = <<>>

\* A template of an unknown sport with nothing to do was built.
C20_Witness ==
    /\ WasBuilt
    /\ template.sport = "yoga"
    /\ template.warmup_seconds <= 0
    /\ template.cooldown_seconds <= 0
    /\ template.repeats = 0
    /\ template.interval_seconds > 0
    /\ built.sportType.sportTypeKey = "running"
    /\ TopSteps = <<>>

\* C21: delete_template(index) with index < 0 or index >= len(templates)
\* changes neither the list nor the store file and raises nothing; with an
\* index in range it removes exactly that element, and the later elements move
\* down by one in their order.
C21_DeleteTemplate ==
    [][last'.op = "delete_template" =>
          LET index == last'.id.v
          IN /\ last'.raised = ""
             /\ IF index < 0 \/ index >= Len(templates)
                THEN templates' = templates /\ store' = store
                ELSE /\ Len(templates') = Len(templates) - 1
                     /\ \A j \in 1..Len(templates) :
                           /\ j < index + 1 => templates'[j] = templates[j]
                           /\ j > index + 1 => templates'[j - 1] = templates[j]]_vars

\* The template at index 0 was deleted: the two that are left are the later
\* two, in their order, and a manager constructed over the store loads them.
C21_Witness ==
    /\ last.op = "delete_template"
    /\ last.id = PyInt(0)
    /\ Len(templates) = 2
    /\ templates[1].name = "Tempo"
    /\ templates[2].name = "Hills"
    /\ WorkoutManager_load(store).templates = templates

\* The member of a JSON object with this key.
MemberOf(obj, k) == {obj.v[i].value : i \in {i \in DOMAIN obj.v : obj.v[i].key = k}}

\* The document is the array of these templates, in order, field by field.
StoreHolds(f, ts) ==
    /\ f.exists
    /\ f.text.t = "json"
    /\ f.text.v.t = "array"
    /\ Len(f.text.v.v) = Len(ts)
    /\ \A i \in DOMAIN ts :
          /\ f.text.v.v[i].t = "object"
          /\ Len(f.text.v.v[i].v) = Cardinality(TextFields \cup IntFields)
          /\ \A k \in TextFields : MemberOf(f.text.v.v[i], k) = {JString(ts[i][k])}
          /\ \A k \in IntFields : MemberOf(f.text.v.v[i], k) = {JNumber(ts[i][k])}

\* C22: after every add_template and every in-range delete_template the store
\* file holds exactly the in-memory list, in order, and a WorkoutManager
\* constructed over that file loads an equal list; from_dict(to_dict(t)) = t.
C22_StoreIsTheList ==
    (last.op = "add_template" \/ templates # <<>> \/ store.exists) =>
        /\ StoreHolds(store, templates)
        /\ WorkoutManager_load(store) = Loaded(templates, "")
        /\ \A i \in DOMAIN templates : from_dict(to_dict(templates[i])) = Returned(templates[i])

\* Three templates were added, one with a negative field and one with a sport
\* outside the table, and the middle one deleted: the store holds the two left.
C22_Witness ==
    /\ last.op = "delete_template"
    /\ last.id = PyInt(1)
    /\ Len(templates) = 2
    /\ templates[1].name = "Tempo"
    /\ templates[1].cooldown_seconds < 0
    /\ templates[2].sport = "yoga"
    /\ StoreHolds(store, templates)

\* The file is an array of template objects: every item is an object whose
\* text fields, where present, are strings and whose number fields, where
\* present, are numbers.
ValidStore(f) ==
    /\ f.exists
    /\ f.text.t = "json"
    /\ f.text.v.t = "array"
    /\ \A i \in DOMAIN f.text.v.v :
          /\ f.text.v.v[i].t = "object"
          /\ \A k \in TextFields : \A x \in MemberOf(f.text.v.v[i], k) : x.t = "string"
          /\ \A k \in IntFields : \A x \in MemberOf(f.text.v.v[i], k) : x.t = "number"

\* C23: a WorkoutManager constructed over a missing store file, or over one
\* that is not a valid array of template objects, is constructed without a
\* failure and has an empty template list.
C23_MalformedStoreLoadsEmpty ==
    (last.op = "WorkoutManager" /\ ~ValidStore(store)) =>
        /\ last.raised = ""
        /\ templates = <<>>

----------------------------------------------------------------------------
(* The surfaces and their workers: MainWindow.run_task,                     *)
(* FileBrowserWidget._run_task, ActivitiesTab._run_async, GioWorker.        *)

\* The tasks each surface hands to its worker.
TasksOf(s) ==
    CASE s = "main" -> {"wipe_watch_music", "full_sync"}
      [] s = "browser" -> {"delete_watch_items", "copy_watch_items_to_local"}
      [] s = "activities" -> {"scan", "upload_selected_activities"}

\* The tasks that write to the mounted device.
DeviceMutating ==
    {"wipe_watch_music", "copy_library_to_watch", "full_sync", "copy_local_items_to_watch",
     "delete_watch_items"}

\* GioWorker(description, task_callable): "running" until the callable is
\* over, then the signal it emitted.
Worker(task) == [task |-> task, state |-> "running"]

\* s without its i-th element.
Without(s, i) == SubSeq(s, 1, i - 1) \o SubSeq(s, i + 1, Len(s))

SurfaceFrame ==
    UNCHANGED <<payload, file, clock, device, tabVars, workoutVars, storeVars, syncVars, clientVars>>

\* A run_task that hands the worker to the pool also while the flag is set.
RunTask_queueing(s, task) ==
    /\ busy' = [busy EXCEPT ![s] = TRUE]
    /\ pool' = [pool EXCEPT ![s] = Append(@, Worker(task))]
    /\ last' = Call("run_task", s, task, PyNone, Returned(<<"started">>))
    /\ SurfaceFrame

\* A run_task that starts the worker and leaves the flag alone.
RunTask_unflagged(s, task) ==
    /\ ~busy[s]
    /\ busy' = busy
    /\ pool' = [pool EXCEPT ![s] = Append(@, Worker(task))]
    /\ last' = Call("run_task", s, task, PyNone, Returned(<<"started">>))
    /\ SurfaceFrame

\* run_task / _run_task / _run_async: the message box and return while the
\* flag is set; otherwise the flag is set and the worker started.
RunTask(s, task) ==
    /\ IF busy[s]
       THEN /\ UNCHANGED <<busy, pool>>
            /\ last' = Call("run_task", s, task, PyNone, Returned(<<"rejected">>))
       ELSE /\ busy' = [busy EXCEPT ![s] = TRUE]
            /\ pool' = [pool EXCEPT ![s] = Append(@, Worker(task))]
            /\ last' = Call("run_task", s, task, PyNone, Returned(<<"started">>))
    /\ SurfaceFrame

\* GioWorker.run: the callable returns and finished is emitted, or it raises
\* and error is emitted.
GioWorkerRun(s, signal) ==
    \E i \in DOMAIN pool[s] :
        /\ pool[s][i].state = "running"
        /\ pool' = [pool EXCEPT ![s][i].state = signal]
        /\ last' = Call("GioWorker.run", s, pool[s][i].task, PyNone, Returned(<<signal>>))
        /\ busy' = busy
        /\ SurfaceFrame

\* The slot of a signal: the flag is cleared and the worker is gone.
Deliver(s, i, signal) ==
    /\ i \in DOMAIN pool[s]
    /\ pool[s][i].state = signal
    /\ busy' = [busy EXCEPT ![s] = FALSE]
    /\ pool' = [pool EXCEPT ![s] = Without(@, i)]
    /\ last' = Call("_task_" \o signal, s, pool[s][i].task, PyNone, Returned(<<>>))
    /\ SurfaceFrame

\* _task_finished
TaskFinished(s) == \E i \in DOMAIN pool[s] : Deliver(s, i, "finished")

\* A _task_error that reports the failure and leaves the flag set.
TaskError_keeps_busy(s) ==
    \E i \in DOMAIN pool[s] :
        /\ pool[s][i].state = "error"
        /\ busy' = busy
        /\ pool' = [pool EXCEPT ![s] = Without(@, i)]
        /\ last' = Call("_task_error", s, pool[s][i].task, PyNone, Returned(<<>>))
        /\ SurfaceFrame

\* _task_error
TaskError(s) == \E i \in DOMAIN pool[s] : Deliver(s, i, "error")

InitSurface == Init

NextSurface ==
    \/ \E s \in Surfaces : \E task \in TasksOf(s) : RunTask(s, task)
    \/ \E s \in Surfaces, signal \in {"finished", "error"} : GioWorkerRun(s, signal)
    \/ \E s \in Surfaces : TaskFinished(s)
    \/ \E s \in Surfaces : TaskError(s)

SpecSurface == InitSurface /\ [][NextSurface]_vars

\* The event loop of the interface delivers every queued signal.
SpecSurfaceLive ==
    /\ SpecSurface
    /\ \A s \in Surfaces : WF_vars(TaskFinished(s)) /\ WF_vars(TaskError(s))

----------------------------------------------------------------------------
(* connect_client.py: ConnectClient, its session and its remote calls.      *)

MaxAuth == 3
MaxRemote == 2

\* What the session directory can hold when the client is constructed:
\* nothing, a session that loads, a session.json without a username, or
\* tokens that do not load.
SessionDirs == {"absent", "valid", "nouser", "corrupt"}

\* _load_session: whether _garmin is set afterwards, the directory
\* afterwards (rmtree on failure), and the note for the history.
_load_session(dir) ==
    CASE dir = "absent" -> [garmin |-> FALSE, dir |-> dir, auth |-> <<>>]
      [] dir = "valid" -> [garmin |-> TRUE, dir |-> dir, auth |-> <<"loaded">>]
      [] dir = "nouser" -> [garmin |-> FALSE, dir |-> dir, auth |-> <<"load_failed">>]
      [] dir = "corrupt" -> [garmin |-> FALSE, dir |-> "absent", auth |-> <<"load_failed">>]

RemoteOps == {"upload_activity", "upload_workout", "download_workout_fit", "schedule_workout"}

\* ConnectClientError("Login to Garmin Connect first.")
AuthRequired == "ConnectClientError: Login to Garmin Connect first."

\* ensure_authenticated: what it raises, "" when it returns the client.
ensure_authenticated(g) == IF g THEN "" ELSE AuthRequired

ClientFrame ==
    UNCHANGED <<payload, file, clock, device, entries, batch, pos, upload_ids, pc, accepted, local,
                workoutVars, storeVars, syncVars, surfaceVars>>

\* ConnectClient(): the process starts again.
ConstructClient ==
    /\ garmin' = _load_session(session_dir).garmin
    /\ session_dir' = _load_session(session_dir).dir
    /\ auth' = _load_session(session_dir).auth
    /\ last' = Event("ConnectClient")
    /\ reached' = reached
    /\ ClientFrame

\* login: garmin.login() succeeds and the session is persisted, or it
\* raises and ConnectClientError leaves login before _garmin is assigned.
ClientLogin(ok) ==
    /\ Len(auth) < MaxAuth
    /\ garmin' = IF ok THEN TRUE ELSE garmin
    /\ session_dir' = IF ok THEN "valid" ELSE session_dir
    /\ auth' = Append(auth, IF ok THEN "login_ok" ELSE "login_failed")
    /\ last' = Call("login", "", "", PyNone, IF ok THEN Returned(<<>>) ELSE Raised("ConnectClientError"))
    /\ reached' = reached
    /\ ClientFrame

\* A logout that removes the persisted session and keeps the client.
ClientLogout_keeps_client ==
    /\ Len(auth) < MaxAuth
    /\ garmin' = garmin
    /\ session_dir' = "absent"
    /\ auth' = Append(auth, "logout")
    /\ last' = Event("logout")
    /\ reached' = reached
    /\ ClientFrame

\* logout
ClientLogout ==
    /\ Len(auth) < MaxAuth
    /\ garmin' = FALSE
    /\ session_dir' = "absent"
    /\ auth' = Append(auth, "logout")
    /\ last' = Event("logout")
    /\ reached' = reached
    /\ ClientFrame

\* upload_activity, upload_workout, download_workout_fit, schedule_workout:
\* ensure_authenticated, then the request, which the service answers or fails.
RemoteCall(op, ok) ==
    /\ garmin => Len(reached) < MaxRemote
    /\ IF ensure_authenticated(garmin) # ""
       THEN /\ last' = Call(op, "", "", PyNone, Raised(ensure_authenticated(garmin)))
            /\ reached' = reached
       ELSE /\ last' = Call(op, "", "", PyNone,
                            IF ok THEN Returned(<<>>) ELSE Raised("GarminConnectConnectionError"))
            /\ reached' = Append(reached, op)
    /\ UNCHANGED <<garmin, session_dir, auth>>
    /\ ClientFrame

InitClient ==
    /\ payload = EmptyDict
    /\ file = NoFile
    /\ clock = 0
    /\ last = NoCall
    /\ device = [p \in {} |-> 0]
    /\ entries = <<>>
    /\ batch = <<>>
    /\ pos = 0
    /\ upload_ids = <<>>
    /\ pc = "idle"
    /\ accepted = {}
    /\ local = [n \in {} |-> 0]
    /\ IdleWorkout
    /\ IdleStore
    /\ IdleSync
    /\ IdleSurfaces
    /\ \E dir \in SessionDirs :
          /\ garmin = _load_session(dir).garmin
          /\ session_dir = _load_session(dir).dir
          /\ auth = _load_session(dir).auth
    /\ reached = <<>>

NextClient ==
    \/ ConstructClient
    \/ \E ok \in BOOLEAN : ClientLogin(ok)
    \/ ClientLogout
    \/ \E op \in RemoteOps, ok \in BOOLEAN : RemoteCall(op, ok)

SpecClient == InitClient /\ [][NextClient]_vars

----------------------------------------------------------------------------
(* Claims about the sync operations.                                        *)

\* The positions of the gio calls of command cmd.
CallsOf(cmds) == {i \in DOMAIN calls : calls[i].cmd \in cmds}
CopyCmds == {"copy", "copy -r"}
Over == sync.state \in {"done", "failed"}

\* C24: copy_library_to_watch stops at the first file whose transport copy
\* reports failure: a failed copy is the last gio call of the operation, and
\* the operation ends as failed.
C24_CopyLibraryStopsAtFailure ==
    sync.op = "copy_library_to_watch" =>
        \A i \in CallsOf(CopyCmds) :
            calls[i].result = "failed" => i = Len(calls) /\ sync.state = "failed"

\* The log lines that tell how an item ended.
ResultLines == {"Copied", "Failed to copy", "Copied folder", "Failed copying", "Removed", "Failed to remove"}
HasResultLine(name) == \E j \in DOMAIN log : log[j].item = name /\ log[j].text \in ResultLines

\* C25: in copy_local_items_to_watch, copy_watch_items_to_local and
\* delete_watch_items the operation, once over, has not failed and every item
\* of the selection has its own result line on the log.
C25_EveryItemProcessed ==
    (sync.op \in {"copy_local_items_to_watch", "copy_watch_items_to_local", "delete_watch_items"} /\ Over) =>
        /\ sync.state = "done"
        /\ \A i \in DOMAIN sync.items : HasResultLine(sync.items[i].name)

\* C26: wipe attempts a removal for every child that was listed, in order;
\* a failed removal has its line on the log and the wipe still returns
\* normally.
C26_WipeBestEffort ==
    (sync.op = "wipe_watch_music" /\ Over) =>
        /\ sync.state = "done"
        /\ sync.raised = ""
        /\ Cardinality(CallsOf({"remove"})) = Len(sync.items)
        /\ \A i \in DOMAIN sync.items :
              \E j \in CallsOf({"remove"}) :
                  /\ calls[j].arg = sync.items[i].name
                  /\ calls[j].result = "failed" =>
                        \E k \in DOMAIN log : log[k] = Line("Failed to remove", sync.items[i].name)

\* A wipe that is over, of two children, where the first removal failed.
C26_Witness ==
    /\ sync.op = "wipe_watch_music"
    /\ sync.state = "done"
    /\ Len(sync.items) = 2
    /\ \E j \in CallsOf({"remove"}) : calls[j].arg = sync.items[1].name /\ calls[j].result = "failed"
    /\ \E j \in CallsOf({"remove"}) : calls[j].arg = sync.items[2].name

\* The names the operation removed from the watch, and those it copied there.
Removed == {calls[i].arg : i \in {j \in CallsOf({"remove"}) : calls[j].result = "ok"}}
Copied == {calls[i].arg : i \in {j \in CallsOf(CopyCmds) : calls[j].result = "ok"}}

\* C27: in full_sync every removal attempt precedes every copy attempt and
\* copy_library begins only when every listed child has had its attempt;
\* a name the wipe removed is on the watch again only if the copy put it
\* there; a step that makes full_sync fail issues no call and leaves the
\* watch alone, and nothing but the end of the task follows it.
C27_FullSyncWipeThenCopy ==
    /\ [](sync.op = "full_sync" =>
            /\ \A i \in CallsOf({"remove"}), j \in CallsOf(CopyCmds) : i < j
            /\ (Removed \cap watch) \subseteq Copied)
    /\ [][sync.op = "full_sync" =>
            /\ (sync.phase = "remove" /\ sync'.phase = "copy") =>
                  Cardinality(CallsOf({"remove"})) = Len(sync.items)
            /\ (sync.state = "running" /\ sync'.state = "failed") =>
                  calls' = calls /\ watch' = watch
            /\ sync.state = "failed" => sync' = NoSync /\ watch' = watch]_vars

\* A full_sync that failed in copy_library after its wipe removed a file,
\* which is still gone.
C27_Witness ==
    /\ sync.op = "full_sync"
    /\ sync.state = "failed"
    /\ sync.phase = "copy"
    /\ Removed # {}
    /\ ~(Removed \subseteq watch)

\* C28: copy_library_to_watch on an existing source directory without
\* regular files logs the notice, issues no gio call and returns.
C28_EmptyLibraryNoCalls ==
    (/\ sync.op = "copy_library_to_watch"
     /\ sync.source.exists
     /\ RegularFiles(sync.source.entries) = <<>>) =>
        /\ calls = <<>>
        /\ sync.state = "done"
        /\ \E j \in DOMAIN log : log[j].text = "No files found"

\* copy_library_to_watch returned from a source that holds only a directory.
C28_Witness ==
    /\ sync.op = "copy_library_to_watch"
    /\ sync.source.exists
    /\ sync.source.entries = <<Album>>
    /\ sync.state = "done"

----------------------------------------------------------------------------
(* Claims about sanitize_filename.                                          *)

Sanitized == last.op = "sanitize_filename"
Valid(ch) == isalnum(ch) \/ ch \in {"-", "_"}

\* C29: sanitize_filename gives "workout" for every name that holds no
\* alphanumeric, '-' or '_' character.
C29_AllInvalidGivesWorkout ==
    (Sanitized /\ \A i \in DOMAIN last.path : ~Valid(last.path[i])) => last.value = Workout

\* The result has one character per character of the name s: the character
\* itself when it is valid, '_' otherwise.
PerCharacter(s, result) ==
    /\ Len(result) = Len(s)
    /\ \A i \in DOMAIN s : result[i] = IF Valid(s[i]) THEN s[i] ELSE "_"

\* C30 as stated: the result of sanitize_filename has one character per
\* character of the name it was given.
C30_OneCharacterPerInput == Sanitized => PerCharacter(last.path, last.value)

\* How many characters at the start, and at the end, of s are whitespace.
Leading(s) == Cardinality({k \in 1..Len(s) : \A i \in 1..k : s[i] \in Whitespace})
Trailing(s) == Cardinality({k \in 1..Len(s) : \A i \in (Len(s) - k + 1)..Len(s) : s[i] \in Whitespace})

\* C30, amended: the result has one character per character of the name
\* without its leading and trailing whitespace, and is "workout" when
\* nothing is left of the name.
C30_OneCharacterPerStrippedInput ==
    Sanitized =>
        LET name == last.path
        IN IF Leading(name) = Len(name) THEN last.value = Workout
           ELSE PerCharacter(SubSeq(name, Leading(name) + 1, Len(name) - Trailing(name)), last.value)

\* sanitize_filename(" T?") returned "T_".
C30_Witness ==
    /\ Sanitized
    /\ last.path = <<" ", "T", "?">>
    /\ last.value = <<"T", "_">>

----------------------------------------------------------------------------
(* The estimate of a payload against the steps it holds.                    *)

\* The seconds a step of the payload lasts: its own, or for a repeat block
\* its iterations times those of its two children.
StepTime(step) ==
    IF IsRepeat(step)
    THEN step.numberOfIterations
            * (step.workoutSteps[1].endConditionValue.v + step.workoutSteps[2].endConditionValue.v)
    ELSE step.endConditionValue.v

RECURSIVE SumTimes(_, _)
SumTimes(steps, i) == IF i > Len(steps) THEN 0 ELSE StepTime(steps[i]) + SumTimes(steps, i + 1)

EmittedTime == SumTimes(TopSteps, 1)

NonNegative(t) ==
    /\ t.warmup_seconds >= 0
    /\ t.interval_seconds >= 0
    /\ t.recovery_seconds >= 0
    /\ t.repeats >= 0
    /\ t.cooldown_seconds >= 0

\* C33 as stated: for a template without negative fields the payload's
\* estimatedDurationInSecs is the total time of the steps the payload holds.
C33_EstimateIsEmittedTime ==
    (WasBuilt /\ NonNegative(template)) => built.estimatedDurationInSecs = EmittedTime

\* C33, amended: the estimate is the time of the emitted steps, plus
\* repeats * recovery_seconds when the interval is 0 and the repeat block is
\* therefore not emitted.
C33_EstimateIsEmittedTimePlusUnemittedRecovery ==
    (WasBuilt /\ NonNegative(template)) =>
        built.estimatedDurationInSecs =
            EmittedTime + (IF template.interval_seconds = 0
                           THEN template.repeats * template.recovery_seconds ELSE 0)

\* A payload was built from a template with warmup, cooldown, six repeats
\* and a recovery but no interval: no block among its steps.
C33_Witness ==
    /\ WasBuilt
    /\ template.warmup_seconds = 300
    /\ template.cooldown_seconds = 300
    /\ template.interval_seconds = 0
    /\ template.recovery_seconds = 45
    /\ template.repeats = 6
    /\ Len(TopSteps) = 2
    /\ built.estimatedDurationInSecs = 870

----------------------------------------------------------------------------
(* The source directory of full_sync and copy_library_to_watch.             *)

NotFound == sync.raised = "FileNotFoundError"

\* C35: a missing source directory ends copy_library_to_watch with the
\* not-found error before any gio call, and ends full_sync with it only in
\* its copy part, after the listing, with no copy attempted; the step that
\* raises it in full_sync finds a removal attempt made for every child the
\* wipe listed, and issues no call itself.
C35_SourceCheckedAfterWipe ==
    /\ []((sync.op \in {"full_sync", "copy_library_to_watch"} /\ ~sync.source.exists /\ Over) => NotFound)
    /\ [](NotFound =>
            /\ CallsOf(CopyCmds) = {}
            /\ sync.op = "copy_library_to_watch" => calls = <<>>
            /\ sync.op = "full_sync" => sync.phase = "copy" /\ CallsOf({"list"}) # {})
    /\ [][(sync.op = "full_sync" /\ ~NotFound /\ NotFound') =>
            /\ Cardinality(CallsOf({"remove"})) = Len(sync.items)
            /\ \A i \in DOMAIN sync.items :
                  \E j \in CallsOf({"remove"}) : calls[j].arg = sync.items[i].name
            /\ calls' = calls]_vars

\* full_sync raised not-found after removal attempts for two children.
C35_Witness ==
    /\ sync.op = "full_sync"
    /\ NotFound
    /\ Cardinality(CallsOf({"remove"})) = 2

----------------------------------------------------------------------------
(* The manifest over a run of mark calls.                                   *)

\* The record of path p in payload pl says uploaded.
SaysUploaded(pl, p) ==
    /\ p \in RecordedPaths(pl)
    /\ "uploaded" \in DOMAIN pl.v[p].v
    /\ Truthy(pl.v[p].v["uploaded"])

\* C36: a mark_uploaded or mark_copied call removes no record and turns no
\* uploaded flag back to false; a record that existed before the call is
\* changed by it only if the call is mark_uploaded on that record's path.
C36_MarksOnlyAdd ==
    [][last'.op \in {"mark_uploaded", "mark_copied"} =>
          /\ RecordedPaths(payload) \subseteq RecordedPaths(payload')
          /\ \A p \in RecordedPaths(payload) :
                /\ SaysUploaded(payload, p) => SaysUploaded(payload', p)
                /\ payload'.v[p] # payload.v[p] => last'.op = "mark_uploaded" /\ last'.path = p]_vars

\* mark_copied was called with another hash on a path recorded as uploaded,
\* beside a second recorded path, and both are still recorded as uploaded.
C36_Witness ==
    /\ last.op = "mark_copied"
    /\ SaysUploaded(payload, last.path)
    /\ payload.v[last.path].v["sha256"] # PyStr(last.sha)
    /\ \A p \in ManifestPaths : SaysUploaded(payload, p)

----------------------------------------------------------------------------
(* copy_to_local and the paths it returns.                                  *)

\* destination / Path(entry.relative_path).name, for the i-th entry of the batch.
DestPath(i) == BaseName(batch[i].relative_path)

\* C37: each turn of copy_to_local leaves under the path it returns the
\* content of its own entry, and leaves the paths returned for the earlier
\* entries holding what they held, so that at the end each returned path
\* holds the content of its own entry.
C37_CopyToLocalKeepsEachEntry ==
    [][(pc = "copying" /\ pos' = pos + 1) =>
          /\ local'[DestPath(pos)] = device[batch[pos].relative_path]
          /\ \A i \in 1..(pos - 1) : local'[DestPath(i)] = local[DestPath(i)]]_vars

----------------------------------------------------------------------------
(* Claims about the surfaces and their workers.                             *)

\* The step is a request to start a task on surface s.
Requested(s) == last' # last /\ last'.op = "run_task" /\ last'.path = s

\* C31: no surface has more than one worker in flight; a request while the
\* surface's flag is set changes neither a flag nor a pool (it is not
\* queued and the running worker is as it was); and a pool gets a worker
\* only by a request made while the flag was clear.
C31_OneTaskPerSurface ==
    /\ [](\A s \in Surfaces : Len(pool[s]) <= 1)
    /\ [][\A s \in Surfaces :
            /\ (Requested(s) /\ busy[s]) => (pool' = pool /\ busy' = busy)
            /\ Len(pool'[s]) > Len(pool[s]) => (Requested(s) /\ ~busy[s])]_vars

\* A request on the file browser was rejected while its worker runs and the
\* activities tab has a worker of its own.
C31_Witness ==
    /\ last.op = "run_task"
    /\ last.path = "browser"
    /\ last.value = <<"rejected">>
    /\ Len(pool["browser"]) = 1
    /\ pool["browser"][1].state = "running"
    /\ pool["activities"] # <<>>

\* The worker of surface s is over: its callable returned or raised.
CallableOver(s) == pool[s] # <<>> /\ pool[s][1].state \in {"finished", "error"}

\* C34: a surface's flag is set exactly while it has a worker whose signal
\* is not yet delivered; the flag is cleared only by the slot of finished or
\* of error, which takes the worker away, so no worker delivers twice; and
\* once the callable is over the flag is cleared eventually, after which a
\* request on the surface starts a task.
C34_TaskEndsAndFlagClears ==
    /\ [](\A s \in Surfaces : busy[s] <=> pool[s] # <<>>)
    /\ [][\A s \in Surfaces :
            (busy[s] /\ ~busy'[s]) =>
                /\ last'.op \in {"_task_finished", "_task_error"}
                /\ last'.path = s
                /\ pool'[s] = <<>>]_vars
    /\ \A s \in Surfaces : CallableOver(s) ~> ~busy[s]
    /\ [][\A s \in Surfaces : (Requested(s) /\ ~busy[s]) => Len(pool'[s]) = 1]_vars

\* The main window's task raised and its error was delivered: the flag is
\* clear and the pool empty, while the file browser's worker still runs.
C34_Witness ==
    /\ last.op = "_task_error"
    /\ last.path = "main"
    /\ ~busy["main"]
    /\ pool["main"] = <<>>
    /\ busy["browser"]

\* The workers in flight that write to the device, as <<surface, index>>.
Writers == {w \in Surfaces \X (1..2) : w[2] \in DOMAIN pool[w[1]] /\ pool[w[1]][w[2]].task \in DeviceMutating}

\* C38 as stated: at most one device-writing operation is in flight, over
\* all surfaces together.
C38_OneWriterPerDevice == Cardinality(Writers) <= 1

\* C38, amended: at most one device-writing operation is in flight per
\* surface.
C38_OneWriterPerSurface ==
    \A s \in Surfaces : Cardinality({w \in Writers : w[1] = s}) <= 1

\* A full sync from the main window and a delete from the file browser are
\* running at the same time.
C38_Witness ==
    /\ pool["main"] = <<Worker("full_sync")>>
    /\ pool["browser"] = <<Worker("delete_watch_items")>>

----------------------------------------------------------------------------
(* Claims about the client's session.                                       *)

WasRemote == last.op \in RemoteOps

\* C32 as stated: a remote call gets past the authentication test only when
\* the last of the client's logins and logouts (or its session load, when
\* there was none) was a successful one.
C32_ReachedOnlyAfterSuccessfulLogin ==
    (WasRemote /\ last.raised # AuthRequired) =>
        (auth # <<>> /\ auth[Len(auth)] \in {"login_ok", "loaded"})

\* A session was established, by a load or a login, and no logout came after.
HoldsSession ==
    \E i \in DOMAIN auth :
        /\ auth[i] \in {"login_ok", "loaded"}
        /\ \A j \in DOMAIN auth : j > i => auth[j] # "logout"

\* C32, amended: the client holds a session exactly from a successful load
\* or login to the next logout, a failed login leaving it as it was; a
\* remote call without a session fails with the authentication-required
\* error and adds nothing to what reached the service, and with a session
\* it reaches the service.
C32_RemoteNeedsSession ==
    /\ [](garmin <=> HoldsSession)
    /\ [](WasRemote => (last.raised = AuthRequired <=> ~HoldsSession))
    /\ [][(last' # last /\ last'.op \in RemoteOps) =>
            reached' = IF HoldsSession THEN Append(reached, last'.op) ELSE reached]_vars

\* After a session that did not load, a login succeeded, a second login
\* failed, and upload_workout reached the service.
C32_Witness ==
    /\ auth = <<"load_failed", "login_ok", "login_failed">>
    /\ last.op = "upload_workout"
    /\ last.raised = ""
    /\ reached = <<"upload_workout">>

====
